---------------------------- MODULE Spec2Model ----------------------------
(* Model of the livekit-telephony call orchestrator: agent_entrypoint     *)
(* (src/unified_agent.py), the entry router (src/main.py) and the parts   *)
(* of the data-access layer (src/database/db_queries.py) they rely on.    *)
EXTENDS Integers, Sequences, FiniteSets, TLC

(***************************************************************************)
(* Arbitrary-size naturals and IEEE-754 doubles.                           *)
(*                                                                         *)
(* Python integers are unbounded and calculate_credits_used works on       *)
(* binary64 floats. A natural is modelled by its digits in base 2^15, most *)
(* significant first, without leading zeros (0 is the empty sequence); a   *)
(* non-negative double is [m, e] with value m * 2^e, m a natural of at     *)
(* most 53 significant bits.                                               *)
(***************************************************************************)
DigitBits == 15

Base == 2 ^ DigitBits

MantissaBits == 53

Max(a, b) == IF a >= b THEN a ELSE b

Zeros(n) == [i \in 1..n |-> 0]

RECURSIVE BigOf(_)
BigOf(n) == IF n = 0 THEN <<>> ELSE Append(BigOf(n \div Base), n % Base)

RECURSIVE NatOf(_)
NatOf(b) == IF b = <<>> THEN 0
            ELSE Base * NatOf(SubSeq(b, 1, Len(b) - 1)) + b[Len(b)]

RECURSIVE Strip(_)
Strip(b) == IF b = <<>> \/ b[1] # 0 THEN b ELSE Strip(Tail(b))

HasNonZero(b) == \E i \in 1..Len(b) : b[i] # 0

IsOdd(b) == b # <<>> /\ b[Len(b)] % 2 = 1

RECURSIVE SmallBitLen(_)
SmallBitLen(x) == IF x = 0 THEN 0 ELSE 1 + SmallBitLen(x \div 2)

BitLen(b) == IF b = <<>> THEN 0
             ELSE (Len(b) - 1) * DigitBits + SmallBitLen(b[1])

RECURSIVE AddFrom(_, _, _, _)
AddFrom(a, b, i, c) ==
    IF i = 0 THEN (IF c = 0 THEN <<>> ELSE <<c>>)
    ELSE LET s == a[i] + b[i] + c
         IN  Append(AddFrom(a, b, i - 1, s \div Base), s % Base)

BAdd(a, b) ==
    LET n == Max(Len(a), Len(b))
    IN  Strip(AddFrom(Zeros(n - Len(a)) \o a, Zeros(n - Len(b)) \o b, n, 0))

(* a * c for a digit-sized c. *)
RECURSIVE MulFrom(_, _, _, _)
MulFrom(a, c, i, carry) ==
    IF i = 0 THEN (IF carry = 0 THEN <<>> ELSE <<carry>>)
    ELSE LET s == a[i] * c + carry
         IN  Append(MulFrom(a, c, i - 1, s \div Base), s % Base)

MulSmall(a, c) == Strip(MulFrom(a, c, Len(a), 0))

RECURSIVE BMul(_, _)
BMul(a, b) ==
    IF a = <<>> \/ b = <<>> THEN <<>>
    ELSE LET rest == BMul(a, SubSeq(b, 1, Len(b) - 1))
         IN  BAdd(IF rest = <<>> THEN <<>> ELSE Append(rest, 0),
                  MulSmall(a, b[Len(b)]))

RECURSIVE LexLess(_, _, _)
LexLess(a, b, i) ==
    IF i > Len(a) THEN FALSE
    ELSE IF a[i] # b[i] THEN a[i] < b[i]
    ELSE LexLess(a, b, i + 1)

BLess(a, b) ==
    \/ Len(a) < Len(b)
    \/ Len(a) = Len(b) /\ LexLess(a, b, 1)

BMax(a, b) == IF BLess(a, b) THEN b ELSE a

(* Long division of a natural by a positive integer d <= Base. *)
RECURSIVE DivFrom(_, _, _, _, _)
DivFrom(t, d, i, r, q) ==
    IF i > Len(t) THEN [q |-> Strip(q), r |-> r]
    ELSE LET x == r * Base + t[i]
         IN  DivFrom(t, d, i + 1, x % d, Append(q, x \div d))

BDivMod(t, d) == DivFrom(t, d, 1, 0, <<>>)

BCeilDiv(t, d) ==
    LET qr == BDivMod(t, d)
    IN  IF qr.r = 0 THEN qr.q ELSE BAdd(qr.q, <<1>>)

ShiftLeft(n, s) ==
    IF n = <<>> THEN <<>>
    ELSE MulSmall(n, 2 ^ (s % DigitBits)) \o Zeros(s \div DigitBits)

(* floor(n / 2^k), and whether any of the k bits shifted out was set. *)
ShiftRight(n, k) ==
    LET a == k \div DigitBits
    IN  IF a >= Len(n) THEN [q |-> <<>>, sticky |-> n # <<>>]
        ELSE LET qr == BDivMod(SubSeq(n, 1, Len(n) - a), 2 ^ (k % DigitBits))
             IN  [q |-> qr.q,
                  sticky |-> qr.r # 0
                               \/ HasNonZero(SubSeq(n, Len(n) - a + 1, Len(n)))]

(* Round n * 2^e (plus, when sticky, a positive amount below 2^e) to the   *)
(* nearest double, ties to even.                                           *)
Round53(n, e, sticky) ==
    IF BitLen(n) <= MantissaBits THEN [m |-> n, e |-> e]
    ELSE LET k       == BitLen(n) - MantissaBits
             withG   == ShiftRight(n, k - 1)
             kept    == ShiftRight(withG.q, 1).q
             rest    == sticky \/ withG.sticky
             roundUp == IsOdd(withG.q) /\ (rest \/ IsOdd(kept))
         IN  [m |-> IF roundUp THEN BAdd(kept, <<1>>) ELSE kept, e |-> e + k]

(* Python's int / int, and a decimal float literal: the correctly rounded  *)
(* quotient.                                                               *)
FDivInt(t, d) ==
    IF t = <<>> THEN [m |-> <<>>, e |-> 0]
    ELSE LET s  == Max(0, MantissaBits + 1 + SmallBitLen(d) - BitLen(t))
             qr == BDivMod(ShiftLeft(t, s), d)
         IN  Round53(qr.q, 0 - s, qr.r # 0)

FMul(x, y) == Round53(BMul(x.m, y.m), x.e + y.e, FALSE)

(* int(-(-x // 1)): the exact ceiling of the double x. *)
FCeil(x) ==
    IF x.e >= 0 THEN ShiftLeft(x.m, x.e)
    ELSE LET sr == ShiftRight(x.m, 0 - x.e)
         IN  IF sr.sticky THEN BAdd(sr.q, <<1>>) ELSE sr.q

(* The float literals 1.5 and 1.2. *)
Float1_5 == FDivInt(BigOf(3), 2)

Float1_2 == FDivInt(BigOf(6), 5)

(***************************************************************************)
(* calculate_credits_used (db_queries.py 85-96), on naturals as digits.    *)
(***************************************************************************)
TokensPerCredit == 70

MinimumCredit == 20

(* A calculation with one tier: 1.5 above 500 tokens. *)
calculate_credits_used_one_tier(total_tokens) ==
    LET raw == FDivInt(total_tokens, TokensPerCredit)
        credits_deducted ==
            IF BLess(BigOf(500), total_tokens) THEN FMul(raw, Float1_5) ELSE raw
    IN  BMax(FCeil(credits_deducted), BigOf(MinimumCredit))

calculate_credits_used(total_tokens) ==
    LET raw == FDivInt(total_tokens, TokensPerCredit)
        credits_deducted ==
            IF BLess(BigOf(1000), total_tokens) THEN FMul(raw, Float1_5)
            ELSE IF BLess(BigOf(500), total_tokens) THEN FMul(raw, Float1_2)
            ELSE raw
    IN  BMax(FCeil(credits_deducted), BigOf(MinimumCredit))

(* The cost the specification prescribes: the exact integer ceiling of the *)
(* rational value, never below the minimum.                                *)
ExactCredits(t) ==
    LET c == IF BLess(BigOf(1000), t) THEN BCeilDiv(BMul(t, BigOf(3)), 140)
             ELSE IF BLess(BigOf(500), t) THEN BCeilDiv(BMul(t, BigOf(3)), 175)
             ELSE BCeilDiv(t, 70)
    IN  BMax(c, BigOf(20))

(***************************************************************************)
(* The datastore, job inputs and Python values.                            *)
(***************************************************************************)
Calls == {1, 2}

Procs == {1, 2}

Customers == {1, 2}

None == "None"

JsonNull == "<null>"

NoneId == 0

Null == <<>>

(* dict.get(key, default) *)
Get(m, k, default) == IF k \in DOMAIN m THEN m[k] ELSE default

Range(seq) == {seq[i] : i \in DOMAIN seq}

EmptyDict == [k \in {} |-> None]

(* chat_bot rows by chat_bot_id, and chat_bot_phone_number rows by trunk   *)
(* phone number; no operation of the program writes either table.          *)
chat_bot ==
    [id \in {1, 2} |->
        [chat_bot_id |-> id, customer_id |-> id,
         namespace   |-> IF id = 1 THEN "ns-1" ELSE "ns-2",
         index_name  |-> IF id = 1 THEN "idx-1" ELSE "idx-2",
         environment |-> IF id = 1 THEN "groq" ELSE "gemini"]]

(* chat_bot_related_feature: the active custom prompt (feature 1) of a     *)
(* knowledge base; knowledge base 2 has no row.                            *)
chat_bot_related_feature == [id \in {1} |-> "Answer briefly."]

chat_bot_phone_number == [t \in {"+100", "+200"} |-> IF t = "+100" THEN 1 ELSE 2]

NoChatBot == [chat_bot_id |-> NoneId]

(* The page metadata of a chunk: a number, a text, or missing. *)
PageNum(n) == [type |-> "num", value |-> n, text |-> ""]

PageStr(t) == [type |-> "str", value |-> 0, text |-> t]

NoPage == [type |-> "none", value |-> 0, text |-> ""]

(* The Pinecone index of each tenant namespace: its chunks, nearest to the *)
(* query first. Tenant 1 has documents, tenant 2 has none.                 *)
TenantIndexes ==
    [ns \in {"ns-1", "ns-2"} |->
        IF ns = "ns-1"
        THEN <<[page_content |-> 1, page |-> PageNum(1)],
               [page_content |-> 2, page |-> NoPage]>>
        ELSE <<>>]

(* ctx.job.metadata after json.loads: a dict over the recognised keys. *)
Payload(outbound, customer, kb, env) ==
    [k \in (IF outbound = "absent" THEN {} ELSE {"isoutBoundCall"})
           \cup (IF customer = NoneId THEN {} ELSE {"customerId"})
           \cup (IF kb = NoneId THEN {} ELSE {"knowledgebaseId"})
           \cup (IF env = "absent" THEN {} ELSE {"environment"}) |->
        CASE k = "isoutBoundCall"  -> (outbound = "true")
          [] k = "customerId"      -> customer
          [] k = "knowledgebaseId" -> kb
          [] k = "environment"     -> env]

Participant(kind, key, number) ==
    [kind |-> kind, attributes |-> [k \in {key} \ {None} |-> number]]

Participants ==
    {Participant("STANDARD", None, None),
     Participant("STANDARD", "sip.trunkPhoneNumber", "+200"),
     Participant("SIP", "sip.phoneNumber", "+999"),
     Participant("SIP", "sip.trunkPhoneNumber", "+100"),
     Participant("SIP", "trunkPhoneNumber", "+200")}

NoJob == [metadata |-> EmptyDict, participant |-> Participant(None, None, None)]

(* The tenant keys of a payload: customerId, knowledgebaseId, environment. *)
TenantKeys ==
    {<<NoneId, NoneId, "absent">>, <<2, 2, "gemini">>, <<NoneId, 3, "azure">>,
     <<2, NoneId, "azure">>, <<NoneId, 2, JsonNull>>}

(* Jobs of a worker that handles one call. *)
SoloJobs ==
    {[metadata |-> Payload(ob, t[1], t[2], t[3]), participant |-> p] :
        ob \in {"absent", "true", "false"}, t \in TenantKeys, p \in Participants}

(* Jobs of two concurrently active calls. *)
DuoJobs ==
    {[metadata |-> Payload("absent", NoneId, NoneId, "absent"),
      participant |-> Participant("STANDARD", None, None)],
     [metadata |-> Payload("true", 2, 2, "gemini"),
      participant |-> Participant("SIP", "sip.trunkPhoneNumber", "+100")]}

CreditRows ==
    {[credits |-> 19, total_spent |-> Null],
     [credits |-> 20, total_spent |-> <<0>>],
     [credits |-> 30, total_spent |-> Null],
     [credits |-> 45, total_spent |-> <<5>>]}

(* customer_credit tables: one row per customer at most. *)
CreditTables ==
    {[k \in ks |-> r] : ks \in {{1}, {1, 2}}, r \in CreditRows}

MaxMetrics == 1

MaxUtterances == 1

(* total_tokens of the LLM usage metrics a session reports. *)
TokenSamples == {70, 1400}

VARIABLES
    total_tokens,      \* calculate_credits_used: its argument
    credits_used,      \* calculate_credits_used: its result
    provider_input,    \* provider factories: the metadata and the failing constructors
    instances,         \* provider factories: what each returned
    rag_input,         \* get_rag_information_from_vector_store: arguments, vector store
    rag_output,        \* get_rag_information_from_vector_store: its result
    tool_input,        \* a tool or upsert invocation: arguments, _RUNTIME, collaborators
    tool_output,       \* a tool or upsert invocation: what it returned and changed
    lead_input,        \* create_user_lead_form: arguments, failing statement, schema
    lead_db,           \* tables user_lead and user_lead_value, as committed
    lead_output,       \* create_user_lead_form / is_lead_already_exists: results
    job,               \* per call: the dispatched job (payload, participant)
    broken,            \* the providers whose construction throws in this deployment
    proc,              \* per call: the worker process running it
    pc,                \* per call: position in agent_entrypoint
    outcome,           \* per call: how agent_entrypoint ended
    entrypoint,        \* per call: how main.entrypoint ended
    metadata,          \* per call: local variable metadata
    customer_id,       \* per call: local variable customer_id
    knowledgebase_id,  \* per call: local variable knowledgebase_id
    existing_chatbot,  \* per call: local variable existing_chatbot
    kb_summary,        \* per call: local variable kb_summary, page contents joined
    custom_prompt,     \* per call: the custom instructions put in final_prompt
    room,              \* per call: state of ctx.room
    session,           \* per call: the AgentSession
    credit_check,      \* per call: local variable credit_check, and what it saw
    steps,             \* per call: the steps performed so far, in order
    vector_store,      \* per namespace: the chunks of the index, or its failure
    RUNTIME,           \* per process: utils.common._RUNTIME
    populated,         \* per process: the calls that populated _RUNTIME, in order
    busy,              \* per process: the task blocking the event loop
    customer_credit,   \* table customer_credit
    customer_realtime_information,   \* table customer_realtime_information
    credit0,           \* table customer_credit as it was initially
    overlapped,        \* customers with a deduction that read during another's
    deducted,          \* per customer: sum of the committed deductions
    tasks              \* deduct_credits tasks created and not finished

callVars == <<job, broken, proc, pc, outcome, entrypoint, metadata, customer_id,
              knowledgebase_id, existing_chatbot, kb_summary, custom_prompt, room, session,
              credit_check, steps>>

sharedVars == <<vector_store, RUNTIME, populated, busy, customer_credit, customer_realtime_information,
                credit0, overlapped, deducted, tasks>>

calcVars == <<total_tokens, credits_used>>

provVars == <<provider_input, instances>>

ragVars == <<rag_input, rag_output>>

toolVars == <<tool_input, tool_output>>

leadVars == <<lead_input, lead_db, lead_output>>

pureVars == <<calcVars, provVars, ragVars, toolVars, leadVars>>

vars == <<pureVars, callVars, sharedVars>>

NotComputed == <<0>>

NoSession ==
    [created |-> FALSE, started |-> FALSE, llm |-> None, tts |-> None, stt |-> None,
     metrics_handler |-> FALSE, greetings |-> <<>>,
     metrics |-> 0, spawned |-> 0, utterances |-> 0]

NotChecked ==
    [checked |-> FALSE, customer |-> NoneId, has_credits |-> FALSE,
     current_credits |-> 0, db_ok |-> TRUE, balance |-> 0, spent |-> 0,
     unchanged |-> TRUE]

EmptyRuntime ==
    [room |-> NoneId, namespace |-> None, index_name |-> None, customer_id |-> NoneId]

InitCallsWith(jobs, faults, procs, table, indexes) ==
    /\ vector_store = indexes
    /\ job = jobs
    /\ broken = faults
    /\ proc = procs
    /\ pc = [c \in Calls |-> "idle"]
    /\ outcome = [c \in Calls |-> "none"]
    /\ entrypoint = [c \in Calls |-> "none"]
    /\ metadata = [c \in Calls |-> EmptyDict]
    /\ customer_id = [c \in Calls |-> NoneId]
    /\ knowledgebase_id = [c \in Calls |-> NoneId]
    /\ existing_chatbot = [c \in Calls |-> NoChatBot]
    /\ kb_summary = [c \in Calls |-> <<>>]
    /\ custom_prompt = [c \in Calls |-> ""]
    /\ room = [c \in Calls |-> "new"]
    /\ session = [c \in Calls |-> NoSession]
    /\ credit_check = [c \in Calls |-> NotChecked]
    /\ steps = [c \in Calls |-> <<>>]
    /\ RUNTIME = [p \in Procs |-> EmptyRuntime]
    /\ populated = [p \in Procs |-> <<>>]
    /\ busy = [p \in Procs |-> <<>>]
    /\ customer_credit = table
    /\ customer_realtime_information =
           <<[customer_id |-> 1, info_key |-> "name", info_value |-> "Ada"]>>
    /\ credit0 = table
    /\ overlapped = {}
    /\ deducted = [k \in Customers |-> 0]
    /\ tasks = {}

InitCalls(jobs, faults, procs, table) ==
    InitCallsWith(jobs, faults, procs, table, TenantIndexes)

NotBuilt == [provider |-> "<not built>"]

NoInstances == [llm |-> NotBuilt, tts |-> NotBuilt, stt |-> NotBuilt]

CalcIdle == total_tokens = <<>> /\ credits_used = NotComputed

ProvidersIdle ==
    /\ provider_input = [metadata |-> EmptyDict, throws |-> {}]
    /\ instances = NoInstances

NotRetrieved ==
    [is_page_specific |-> FALSE,
     page |-> [type |-> "<not retrieved>", value |-> 0, text |-> ""],
     results |-> <<>>]

RagIdle ==
    /\ rag_input = [message |-> <<>>, top_k |-> 1, store |-> <<>>]
    /\ rag_output = NotRetrieved

NotInvoked == [result |-> <<"<not invoked>">>, sent |-> <<>>, table |-> <<>>]

ToolsIdle ==
    /\ tool_input = [tool |-> None]
    /\ tool_output = NotInvoked

NoLeads == [user_lead |-> <<>>, user_lead_value |-> <<>>]

NotCreated == [result |-> "<not called>", exists |-> "<not called>", open |-> 0]

LeadsIdle ==
    /\ lead_input = [chat_bot_id |-> NoneId]
    /\ lead_db = NoLeads
    /\ lead_output = NotCreated

InitSolo ==
    \E j \in SoloJobs, f \in SUBSET {"llm", "tts"}, t \in CreditTables :
        InitCalls([c \in Calls |-> IF c = 1 THEN j ELSE NoJob], f,
                  [c \in Calls |-> 1], t)

InitDuo ==
    \E js \in [Calls -> DuoJobs], p2 \in Procs :
        InitCalls(js, {}, [c \in Calls |-> IF c = 1 THEN 1 ELSE p2],
                  [k \in Customers |-> [credits |-> 45, total_spent |-> <<5>>]])

Init == CalcIdle /\ ProvidersIdle /\ RagIdle /\ ToolsIdle /\ LeadsIdle /\ (InitSolo \/ InitDuo)

(***************************************************************************)
(* get_rag_information_from_vector_store (rag_tools.py 11-85).             *)
(*                                                                         *)
(* A message is the sequence of its tokens: maximal runs of letters, of    *)
(* white space (" "), of digits, and punctuation marks. A chunk's page     *)
(* metadata is a number, a text or missing. The vector store is the        *)
(* sequence of its chunks, nearest to the query first.                     *)
(***************************************************************************)
(* int(digits) *)
DigitValue == [d \in {"3", "03", "12"} |-> IF d = "12" THEN 12 ELSE 3]

(* str(n) *)
PageText == [n \in {3, 12} |-> IF n = 12 THEN "12" ELSE "3"]

(* The words ending, whatever their case, in "page" or in "pg". *)
PageWords == {"page", "Page", "PAGE", "pg", "homepage", "jpg"}

(* The words that are, whatever their case, "no", "number" or "num". *)
QualifierWords == {"no", "No", "number", "num"}

(* \s*(\d+) at token j *)
DigitsAt(message, j) ==
    IF j <= Len(message) /\ message[j] \in DOMAIN DigitValue THEN message[j]
    ELSE IF j + 1 <= Len(message) /\ message[j] = " "
               /\ message[j + 1] \in DOMAIN DigitValue
         THEN message[j + 1]
         ELSE None

(* rag_tools.py 41: the pattern (?:page|pg)(?:\s+(?:no|number|num))?\s*(\d+) *)
(* anchored at the end of token i; None when it does not match there.       *)
MatchAt(message, i) ==
    IF message[i] \notin PageWords THEN None
    ELSE LET qualified ==
                 IF i + 2 <= Len(message) /\ message[i + 1] = " "
                       /\ message[i + 2] \in QualifierWords
                 THEN DigitsAt(message, i + 3)
                 ELSE None
         IN  IF qualified # None THEN qualified ELSE DigitsAt(message, i + 1)

(* re.search: the leftmost match, as the digits it captured *)
page_match(message) ==
    LET hits == {i \in DOMAIN message : MatchAt(message, i) # None}
    IN  IF hits = {} THEN None
        ELSE MatchAt(message, CHOOSE i \in hits : \A j \in hits : i <= j)

(* The store whose index cannot be opened or searched. *)
VectorStoreFails ==
    <<[page_content |-> 0,
       page |-> [type |-> "<vector store fails>", value |-> 0, text |-> ""]]>>

RagRaised ==
    [is_page_specific |-> FALSE,
     page |-> [type |-> "<raised>", value |-> 0, text |-> ""],
     results |-> <<>>]

(* asimilarity_search_by_vector_with_score(k=k) *)
similarity_search(store, k) == SubSeq(store, 1, IF k < Len(store) THEN k ELSE Len(store))

PageSearchK == 20

(* rag_tools.py 55 *)
page_matches(doc_page, requested_page) ==
    \/ doc_page.type = "num" /\ doc_page.value = requested_page
    \/ doc_page.type = "str" /\ doc_page.text = PageText[requested_page]

(* A retrieval whose page query asks for top_k neighbours only. *)
get_rag_information_page_top_k(message, top_k, store) ==
    IF store = VectorStoreFails THEN RagRaised
    ELSE IF page_match(message) # None
         THEN LET requested_page == DigitValue[page_match(message)]
                  all_results == similarity_search(store, top_k)
              IN  [results |-> SelectSeq(all_results,
                                  LAMBDA doc : page_matches(doc.page, requested_page)),
                   page |-> PageNum(requested_page),
                   is_page_specific |-> TRUE]
         ELSE LET results == similarity_search(store, top_k)
              IN  [results |-> results,
                   page |-> IF Len(results) > 0 THEN results[1].page ELSE NoPage,
                   is_page_specific |-> FALSE]

(* rag_tools.py 33-85 *)
get_rag_information_from_vector_store(message, top_k, store) ==
    IF store = VectorStoreFails THEN RagRaised
    ELSE IF page_match(message) # None
         THEN LET requested_page == DigitValue[page_match(message)]
                  all_results == similarity_search(store, PageSearchK)
              IN  [results |-> SelectSeq(all_results,
                                  LAMBDA doc : page_matches(doc.page, requested_page)),
                   page |-> PageNum(requested_page),
                   is_page_specific |-> TRUE]
         ELSE LET results == similarity_search(store, top_k)
              IN  [results |-> results,
                   page |-> IF Len(results) > 0 THEN results[1].page ELSE NoPage,
                   is_page_specific |-> FALSE]

(***************************************************************************)
(* agent_entrypoint (unified_agent.py 65-360) under main.entrypoint        *)
(* (main.py 23-32). An action is the code between two suspension points.   *)
(***************************************************************************)
(* The event loop of the call's process is not inside a blocking call. *)
Free(c) == busy[proc[c]] = <<>>

Done(c, step) == steps' = [steps EXCEPT ![c] = Append(@, step)]

(* A main.entrypoint that logs the exception and returns. *)
entrypoint_swallows(agent_outcome) == "returned"

(* main.entrypoint 30-32: an exception of agent_entrypoint is logged and   *)
(* raised again.                                                           *)
entrypoint_outcome(agent_outcome) ==
    IF agent_outcome = "raised" THEN "raised" ELSE "returned"

Ends(c, how) ==
    /\ pc' = [pc EXCEPT ![c] = IF how = "raised" THEN "failed" ELSE "done"]
    /\ outcome' = [outcome EXCEPT ![c] = how]
    /\ entrypoint' = [entrypoint EXCEPT ![c] = entrypoint_outcome(how)]

Goes(c, to) ==
    /\ pc' = [pc EXCEPT ![c] = to]
    /\ UNCHANGED <<outcome, entrypoint>>

(* main.py 23-28 *)
Entrypoint(c) ==
    /\ pc[c] = "idle" /\ job[c] # NoJob /\ Free(c)
    /\ pc' = [pc EXCEPT ![c] = "connect"]
    /\ outcome' = [outcome EXCEPT ![c] = "running"]
    /\ entrypoint' = [entrypoint EXCEPT ![c] = "running"]
    /\ UNCHANGED <<job, broken, proc, kb_summary, custom_prompt, metadata, customer_id, knowledgebase_id,
                   existing_chatbot, room, session, credit_check, steps>>
    /\ UNCHANGED <<sharedVars, pureVars>>

(* unified_agent.py 66 *)
Connect(c) ==
    /\ pc[c] = "connect" /\ Free(c)
    /\ \E ok \in BOOLEAN :
          IF ok
          THEN /\ room' = [room EXCEPT ![c] = "connected"]
               /\ Goes(c, "wait_for_participant")
               /\ Done(c, "connect")
          ELSE /\ Ends(c, "raised")
               /\ UNCHANGED <<room, steps>>
    /\ UNCHANGED <<job, broken, proc, kb_summary, custom_prompt, metadata, customer_id, knowledgebase_id,
                   existing_chatbot, session, credit_check>>
    /\ UNCHANGED <<sharedVars, pureVars>>

(* unified_agent.py 72-82 *)
trunkPhoneNumber(participant) ==
    IF participant.kind = "SIP"
    THEN LET attrs == participant.attributes
             sip   == Get(attrs, "sip.trunkPhoneNumber", None)
         IN  IF sip \notin {None, ""} THEN sip
             ELSE Get(attrs, "trunkPhoneNumber", None)
    ELSE None

(* db_queries.py 613-627 *)
fetch_metadata_by_trunk_phone_number(trunk_phone_number) ==
    [k \in {"llmName"} |-> "openai/gpt-oss-20b"]

(* A selection that keeps the payload's keys beside the lookup's. *)
select_metadata_merged(payload, participant) ==
    LET is_outbound == Get(payload, "isoutBoundCall", FALSE)
        trunk       == trunkPhoneNumber(participant)
    IN  IF is_outbound THEN payload
        ELSE IF trunk \notin {None, ""}
             THEN fetch_metadata_by_trunk_phone_number(trunk) @@ payload
             ELSE payload

(* unified_agent.py 84-90 *)
select_metadata(payload, participant) ==
    LET is_outbound == Get(payload, "isoutBoundCall", FALSE)
        trunk       == trunkPhoneNumber(participant)
    IN  IF is_outbound THEN payload
        ELSE IF trunk \notin {None, ""}
             THEN fetch_metadata_by_trunk_phone_number(trunk)
             ELSE payload

(* An id whose default is the other tenant of the deployment. *)
id_or_default_two(m, key) ==
    IF Get(m, key, NoneId) = NoneId THEN 2 ELSE m[key]

(* int(metadata.get(key) or 1), unified_agent.py 93-94 *)
id_or_default(m, key) ==
    IF Get(m, key, NoneId) = NoneId THEN 1 ELSE m[key]

(* unified_agent.py 69-95 *)
ResolveMetadata(c) ==
    /\ pc[c] = "wait_for_participant" /\ Free(c)
    /\ LET md == select_metadata(job[c].metadata, job[c].participant)
       IN  /\ metadata' = [metadata EXCEPT ![c] = md]
           /\ customer_id' = [customer_id EXCEPT ![c] = id_or_default(md, "customerId")]
           /\ knowledgebase_id' =
                 [knowledgebase_id EXCEPT ![c] = id_or_default(md, "knowledgebaseId")]
    /\ Goes(c, "get_chat_bot")
    /\ Done(c, "metadata")
    /\ UNCHANGED <<job, broken, proc, kb_summary, custom_prompt, existing_chatbot, room, session, credit_check>>
    /\ UNCHANGED <<sharedVars, pureVars>>

(* db_queries.py 5-18 *)
get_chat_bot_by_id(chat_bot_id, db_ok) ==
    IF db_ok /\ chat_bot_id \in DOMAIN chat_bot THEN chat_bot[chat_bot_id]
    ELSE NoChatBot

(* unified_agent.py 99-104 *)
GetChatBot(c) ==
    /\ pc[c] = "get_chat_bot" /\ Free(c)
    /\ \E db_ok \in BOOLEAN :
          LET found == get_chat_bot_by_id(knowledgebase_id[c], db_ok)
          IN  /\ existing_chatbot' = [existing_chatbot EXCEPT ![c] = found]
              /\ IF found = NoChatBot
                 THEN Ends(c, "raised") /\ Done(c, "tenant_missing")
                 ELSE Goes(c, "credit_check") /\ Done(c, "tenant")
    /\ UNCHANGED <<job, broken, proc, kb_summary, custom_prompt, metadata, customer_id, knowledgebase_id, room,
                   session, credit_check>>
    /\ UNCHANGED <<sharedVars, pureVars>>

(* A credit check that accepts any balance that is not negative. *)
check_customer_credits_any_balance(table, customer, minimum_credits, db_ok) ==
    IF db_ok
    THEN LET current_credits ==
                 IF customer \in DOMAIN table THEN table[customer].credits ELSE 0
         IN  [has_credits |-> current_credits >= 0,
              current_credits |-> current_credits]
    ELSE [has_credits |-> FALSE, current_credits |-> 0]

(* A credit check that reports sufficient credit when the datastore fails. *)
check_customer_credits_fail_open(table, customer, minimum_credits, db_ok) ==
    IF db_ok
    THEN LET current_credits ==
                 IF customer \in DOMAIN table THEN table[customer].credits ELSE 0
         IN  [has_credits |-> current_credits >= minimum_credits,
              current_credits |-> current_credits]
    ELSE [has_credits |-> TRUE, current_credits |-> minimum_credits]

(* db_queries.py 99-125 *)
check_customer_credits(table, customer, minimum_credits, db_ok) ==
    IF db_ok
    THEN LET current_credits ==
                 IF customer \in DOMAIN table THEN table[customer].credits ELSE 0
         IN  [has_credits |-> current_credits >= minimum_credits,
              current_credits |-> current_credits]
    ELSE [has_credits |-> FALSE, current_credits |-> 0]

(* A check that reserves one credit of the customer while it reads. *)
credits_after_check_reserving(table, customer, db_ok) ==
    IF db_ok /\ customer \in DOMAIN table
    THEN [table EXCEPT ![customer].credits = @ - 1]
    ELSE table

(* db_queries.py 105-115: table customer_credit after the statements of   *)
(* check_customer_credits, one SELECT and no write.                        *)
credits_after_check(table, customer, db_ok) == table

StoredBalance(table, customer) ==
    IF customer \in DOMAIN table THEN table[customer].credits ELSE 0

(* unified_agent.py 106-115 *)
CreditCheck(c) ==
    /\ pc[c] = "credit_check" /\ Free(c)
    /\ \E db_ok \in BOOLEAN :
          LET res == check_customer_credits(customer_credit, customer_id[c], 20, db_ok)
              after == credits_after_check(customer_credit, customer_id[c], db_ok)
          IN  /\ customer_credit' = after
              /\ credit_check' =
                    [credit_check EXCEPT ![c] =
                        [checked |-> TRUE, customer |-> customer_id[c],
                         has_credits |-> res.has_credits,
                         current_credits |-> res.current_credits, db_ok |-> db_ok,
                         balance |-> StoredBalance(customer_credit, customer_id[c]),
                         spent |-> deducted[customer_id[c]],
                         unchanged |-> (after = customer_credit)]]
              /\ IF res.has_credits
                 THEN Goes(c, "populate_runtime")
                 ELSE Goes(c, "decline")
    /\ Done(c, "credit_gate")
    /\ UNCHANGED <<job, broken, proc, kb_summary, custom_prompt, metadata, customer_id, knowledgebase_id,
                   existing_chatbot, room, session>>
    /\ UNCHANGED <<vector_store, RUNTIME, populated, busy, customer_realtime_information,
                   credit0, overlapped, deducted, tasks, pureVars>>

(* unified_agent.py 109-112: after the sleep *)
Decline(c) ==
    /\ pc[c] = "decline" /\ Free(c)
    /\ room' = [room EXCEPT ![c] = "disconnected"]
    /\ Ends(c, "returned")
    /\ Done(c, "disconnect")
    /\ UNCHANGED <<job, broken, proc, kb_summary, custom_prompt, metadata, customer_id, knowledgebase_id,
                   existing_chatbot, session, credit_check>>
    /\ UNCHANGED <<sharedVars, pureVars>>

(* An update that keeps the context of the call that populated it first. *)
runtime_update_if_empty(runtime, ctx_room, namespace, index_name, customer) ==
    IF runtime.room # NoneId THEN runtime
    ELSE [room |-> ctx_room, namespace |-> namespace, index_name |-> index_name,
          customer_id |-> customer]

(* _RUNTIME.update({...}), unified_agent.py 129-137: the four keys are     *)
(* overwritten whatever they held.                                         *)
runtime_update(runtime, ctx_room, namespace, index_name, customer) ==
    [room |-> ctx_room, namespace |-> namespace, index_name |-> index_name,
     customer_id |-> customer]

(* unified_agent.py 124-139 *)
PopulateRuntime(c) ==
    /\ pc[c] = "populate_runtime" /\ Free(c)
    /\ RUNTIME' = [RUNTIME EXCEPT ![proc[c]] =
                      runtime_update(@, c, existing_chatbot[c].namespace,
                                     existing_chatbot[c].index_name, customer_id[c])]
    /\ populated' = [populated EXCEPT ![proc[c]] = Append(@, c)]
    /\ Goes(c, "assemble_prompt")
    /\ Done(c, "runtime")
    /\ UNCHANGED <<job, broken, proc, kb_summary, custom_prompt, metadata, customer_id, knowledgebase_id,
                   existing_chatbot, room, session, credit_check>>
    /\ UNCHANGED <<vector_store, busy, customer_credit, customer_realtime_information,
                   credit0, overlapped, deducted, tasks, pureVars>>

(* unified_agent.py 147-149: the message of the summary query *)
SummaryMessage ==
    <<"Summarize", " ", "the", " ", "entire", " ", "document", " ", "for", " ",
      "knowledge", " ", "base">>

(* "\n".join of the page contents, unified_agent.py 152-157 *)
JoinContents(results) == [i \in DOMAIN results |-> results[i].page_content]

(* A summary fetch whose exception leaves agent_entrypoint. *)
fetch_kb_summary_propagates(store) ==
    LET kb_summary_result == get_rag_information_from_vector_store(SummaryMessage, 1, store)
    IN  IF kb_summary_result = RagRaised
        THEN [raised |-> TRUE, fetched |-> "kb_summary_failed", kb_summary |-> <<>>]
        ELSE IF kb_summary_result.results = <<>>
             THEN [raised |-> FALSE, fetched |-> "kb_summary_empty", kb_summary |-> <<>>]
             ELSE [raised |-> FALSE, fetched |-> "kb_summary",
                   kb_summary |-> JoinContents(kb_summary_result.results)]

(* unified_agent.py 143-160: an exception of the fetch is logged and the   *)
(* summary stays empty.                                                    *)
fetch_kb_summary(store) ==
    LET kb_summary_result == get_rag_information_from_vector_store(SummaryMessage, 1, store)
    IN  IF kb_summary_result = RagRaised
        THEN [raised |-> FALSE, fetched |-> "kb_summary_failed", kb_summary |-> <<>>]
        ELSE IF kb_summary_result.results = <<>>
             THEN [raised |-> FALSE, fetched |-> "kb_summary_empty", kb_summary |-> <<>>]
             ELSE [raised |-> FALSE, fetched |-> "kb_summary",
                   kb_summary |-> JoinContents(kb_summary_result.results)]

(* x or default, for a string x *)
OrElse(x, default) == IF x \in {None, ""} THEN default ELSE x

PromptRaised == "<raised>"

(* A fetch of the custom prompt that answers None when the datastore fails. *)
get_agent_custom_prompt_swallows(knowledge_base_id, db_ok) ==
    IF db_ok /\ knowledge_base_id \in DOMAIN chat_bot_related_feature
    THEN chat_bot_related_feature[knowledge_base_id]
    ELSE None

(* db_queries.py 167-195: the row's value, None without a row; an error of *)
(* the datastore is logged and raised again.                               *)
get_agent_custom_prompt(knowledge_base_id, db_ok) ==
    IF ~db_ok THEN PromptRaised
    ELSE IF knowledge_base_id \in DOMAIN chat_bot_related_feature
         THEN chat_bot_related_feature[knowledge_base_id]
         ELSE None

(* unified_agent.py 142-171: the custom prompt, the summary and the final  *)
(* prompt.                                                                 *)
AssemblePrompt(c) ==
    /\ pc[c] = "assemble_prompt" /\ Free(c)
    /\ \E db_ok \in BOOLEAN :
          LET fetched_prompt == get_agent_custom_prompt(knowledgebase_id[c], db_ok)
              failed == IF db_ok THEN <<>> ELSE <<"custom_prompt_failed">>
              summary == fetch_kb_summary(vector_store[existing_chatbot[c].namespace])
          IN  IF fetched_prompt = PromptRaised
              THEN /\ Ends(c, "raised")
                   /\ steps' = [steps EXCEPT ![c] = @ \o failed]
                   /\ UNCHANGED <<kb_summary, custom_prompt>>
              ELSE /\ custom_prompt' = [custom_prompt EXCEPT ![c] = OrElse(fetched_prompt, "")]
                   /\ kb_summary' = [kb_summary EXCEPT ![c] = summary.kb_summary]
                   /\ IF summary.raised
                      THEN /\ Ends(c, "raised")
                           /\ steps' = [steps EXCEPT ![c] = @ \o failed \o <<summary.fetched>>]
                      ELSE /\ Goes(c, "fetch_mcp_urls")
                           /\ steps' = [steps EXCEPT ![c] =
                                           @ \o failed \o <<summary.fetched, "prompt">>]
    /\ UNCHANGED <<job, broken, proc, metadata, customer_id, knowledgebase_id,
                   existing_chatbot, room, session, credit_check>>
    /\ UNCHANGED <<sharedVars, pureVars>>

(* unified_agent.py 175-177 *)
FetchMcpUrls(c) ==
    /\ pc[c] = "fetch_mcp_urls" /\ Free(c)
    /\ Goes(c, "create_session")
    /\ Done(c, "tool_urls")
    /\ UNCHANGED <<job, broken, proc, kb_summary, custom_prompt, metadata, customer_id, knowledgebase_id,
                   existing_chatbot, room, session, credit_check>>
    /\ UNCHANGED <<sharedVars, pureVars>>

(***************************************************************************)
(* Provider selection (unified_agent.py 181-248). A provider instance is a *)
(* record naming its class and configuration; `throws` says whether the    *)
(* constructor picked by the environment tag throws.                       *)
(***************************************************************************)
Raised == [provider |-> "<raised>"]

NoProvider == [provider |-> None]

(* str.lower() over the tags of the model *)
Lower(str) ==
    CASE str = "Groq"    -> "groq"
      [] str = "GEMINI"  -> "gemini"
      [] str = "Open AI" -> "open ai"
      [] OTHER           -> str

ArabicVoices == {"Ahmad-PlayAI", "Amira-PlayAI", "Khalid-PlayAI", "Nasser-PlayAI"}

(* unified_agent.py 181-208 *)
create_llm_instance(md, throws) ==
    LET tag == Get(md, "environment", "groq")
        model_name == Get(md, "llmName", None)
        environment == Lower(tag)
        fallback == [provider |-> "openai.LLM", model |-> OrElse(model_name, "gpt-4o-mini")]
    IN  IF tag = JsonNull THEN Raised
        ELSE IF environment = "groq"
             THEN IF throws THEN fallback
                  ELSE [provider |-> "groq.LLM",
                        model |-> OrElse(model_name, "openai/gpt-oss-20b")]
        ELSE IF environment = "gemini"
             THEN IF throws THEN fallback
                  ELSE [provider |-> "google.LLM",
                        model |-> OrElse(model_name, "gemini-2.5-flash")]
        ELSE IF environment = "open ai"
             THEN IF throws THEN fallback
                  ELSE [provider |-> "openai.LLM", model |-> OrElse(model_name, "gpt-5")]
        ELSE NoProvider

(* unified_agent.py 211-233 *)
create_tts_instance(md, throws) ==
    LET tag == Get(md, "environment", "groq")
        voice == Get(md, "voice", None)
        environment == Lower(tag)
    IN  IF tag = JsonNull THEN Raised
        ELSE IF throws THEN [provider |-> "openai.TTS", voice |-> "alloy"]
        ELSE IF environment = "gemini"
             THEN [provider |-> "cartesia.TTS",
                   voice |-> OrElse(voice, "f786b574-daa5-4673-aa0c-cbe3e8534c02")]
        ELSE IF environment = "open ai"
             THEN [provider |-> "openai.TTS", voice |-> OrElse(voice, "alloy")]
        ELSE [provider |-> "groq.TTS", voice |-> OrElse(voice, "Fritz-PlayAI"),
              model |-> IF voice \in ArabicVoices THEN "playai-tts-arabic"
                        ELSE "playai-tts"]

(* unified_agent.py 237-248: every branch and the handler construct the    *)
(* same openai.STT(), so a constructor that throws throws again in the     *)
(* handler.                                                                *)
create_stt_instance(md, throws) ==
    IF Get(md, "environment", "groq") = JsonNull \/ throws THEN Raised
    ELSE [provider |-> "openai.STT"]

(* unified_agent.py 250-275 *)
CreateSession(c) ==
    /\ pc[c] = "create_session" /\ Free(c)
    /\ LET llm == create_llm_instance(metadata[c], "llm" \in broken)
           tts == create_tts_instance(metadata[c], "tts" \in broken)
           stt == create_stt_instance(metadata[c], "stt" \in broken)
       IN     IF Raised \in {llm, tts, stt}
              THEN Ends(c, "raised") /\ UNCHANGED <<session, steps>>
              ELSE /\ session' = [session EXCEPT ![c] =
                                     [@ EXCEPT !.created = TRUE, !.llm = llm,
                                               !.tts = tts, !.stt = stt]]
                   /\ Goes(c, "session_start")
                   /\ Done(c, "providers")
    /\ UNCHANGED <<job, broken, proc, kb_summary, custom_prompt, metadata, customer_id, knowledgebase_id,
                   existing_chatbot, room, credit_check>>
    /\ UNCHANGED <<sharedVars, pureVars>>

(* unified_agent.py 303-329 *)
StartSession(c) ==
    /\ pc[c] = "session_start" /\ Free(c)
    /\ session' = [session EXCEPT ![c].started = TRUE]
    /\ Goes(c, "greeting")
    /\ Done(c, "session_start")
    /\ UNCHANGED <<job, broken, proc, kb_summary, custom_prompt, metadata, customer_id, knowledgebase_id,
                   existing_chatbot, room, credit_check>>
    /\ UNCHANGED <<sharedVars, pureVars>>

(* db_queries.py 198-222: the rows of a customer *)
get_realtime_information(table, customer) ==
    SelectSeq(table, LAMBDA r : r.customer_id = customer)

(* unified_agent.py 332-347: up to the await of session.generate_reply *)
Greeting(c) ==
    /\ pc[c] = "greeting" /\ Free(c)
    /\ \E db_ok \in BOOLEAN :
          IF db_ok
          THEN LET realtime_information ==
                       get_realtime_information(customer_realtime_information,
                                                customer_id[c])
                   instructions ==
                       IF Len(realtime_information) > 0 THEN "context" ELSE "generic"
               IN  /\ session' = [session EXCEPT ![c].greetings = Append(@, instructions)]
                   /\ Goes(c, "generating")
                   /\ Done(c, "greeting")
          ELSE Ends(c, "raised") /\ UNCHANGED <<session, steps>>
    /\ UNCHANGED <<job, broken, proc, kb_summary, custom_prompt, metadata, customer_id, knowledgebase_id,
                   existing_chatbot, room, credit_check>>
    /\ UNCHANGED <<sharedVars, pureVars>>

(* unified_agent.py 345-360: generate_reply has completed; the metrics     *)
(* handler is registered and agent_entrypoint returns.                     *)
RegisterMetrics(c) ==
    /\ pc[c] = "generating" /\ Free(c)
    /\ session' = [session EXCEPT ![c].metrics_handler = TRUE]
    /\ Ends(c, "returned")
    /\ UNCHANGED <<job, broken, proc, kb_summary, custom_prompt, metadata, customer_id, knowledgebase_id,
                   existing_chatbot, room, credit_check, steps>>
    /\ UNCHANGED <<sharedVars, pureVars>>

(***************************************************************************)
(* Events of a running session.                                            *)
(***************************************************************************)
Live(c) == session[c].started /\ pc[c] \in {"generating", "done"}
               /\ room[c] = "connected"

(* unified_agent.py 303-306 *)
on_user_transcribed(s) == [s EXCEPT !.utterances = @ + 1]

UserInputTranscribed(c) ==
    /\ Live(c) /\ Free(c)
    /\ session[c].utterances < MaxUtterances
    /\ session' = [session EXCEPT ![c] = on_user_transcribed(@)]
    /\ UNCHANGED <<job, broken, proc, kb_summary, custom_prompt, pc, outcome, entrypoint, metadata, customer_id,
                   knowledgebase_id, existing_chatbot, room, credit_check, steps>>
    /\ UNCHANGED <<sharedVars, pureVars>>

NoRow == [credits |-> 0, total_spent |-> Null]

(* The session emits an LLMMetrics event; unified_agent.py 349-354 when    *)
(* on_metrics_collected is registered.                                     *)
MetricsCollected(c) ==
    /\ Live(c) /\ Free(c)
    /\ session[c].metrics < MaxMetrics
    /\ \E tokens \in TokenSamples :
          IF session[c].metrics_handler
          THEN /\ session' = [session EXCEPT ![c].metrics = @ + 1,
                                             ![c].spawned = @ + 1]
               /\ tasks' = tasks \cup
                     {[call |-> c, n |-> session[c].metrics + 1,
                       customer_id |-> customer_id[c], total_tokens |-> tokens,
                       state |-> "created", row |-> NoRow]}
          ELSE /\ session' = [session EXCEPT ![c].metrics = @ + 1]
               /\ UNCHANGED tasks
    /\ UNCHANGED <<job, broken, proc, kb_summary, custom_prompt, pc, outcome, entrypoint, metadata, customer_id,
                   knowledgebase_id, existing_chatbot, room, credit_check, steps>>
    /\ UNCHANGED <<vector_store, RUNTIME, populated, busy, customer_credit,
                   customer_realtime_information, credit0, overlapped, deducted, pureVars>>

(***************************************************************************)
(* deduct_credits (unified_agent.py 356-358) and deduct_customer_credits   *)
(* (db_queries.py 128-164). The function makes blocking calls, so the      *)
(* event loop of its process runs nothing else until it returns; the       *)
(* datastore serves other processes between its SELECT and its UPDATE.     *)
(***************************************************************************)
TaskId(t) == <<t.call, t.n>>

(* deduct_credits 357: the cost of each token count a session reports *)
totalCredits == [tok \in TokenSamples |-> NatOf(calculate_credits_used(BigOf(tok)))]

Cost(t) == totalCredits[t.total_tokens]

(* db_queries.py 145-146 *)
(* An update that adds the cost to total_spent only when it is not NULL. *)
deducted_row_null_spent(row, total_credits) ==
    [credits |-> row.credits - total_credits,
     total_spent |->
         IF row.total_spent = Null THEN Null ELSE <<row.total_spent[1] + total_credits>>]

(* An update that never stores a balance below zero. *)
deducted_row_floored(row, total_credits) ==
    [credits |-> IF row.credits < total_credits THEN 0 ELSE row.credits - total_credits,
     total_spent |->
         <<(IF row.total_spent = Null THEN 0 ELSE row.total_spent[1]) + total_credits>>]

deducted_row(row, total_credits) ==
    [credits |-> row.credits - total_credits,
     total_spent |->
         <<(IF row.total_spent = Null THEN 0 ELSE row.total_spent[1]) + total_credits>>]

(* A deduction that awaits its queries, so the event loop runs other tasks *)
(* between its SELECT and its UPDATE.                                      *)
loop_during_deduct_yielding(loop, p, id) == loop

(* db_queries.py 140-155: the queries are blocking calls with no await     *)
(* between them; from the SELECT to the commit the event loop of the       *)
(* process runs this task only.                                            *)
loop_during_deduct(loop, p, id) == [loop EXCEPT ![p] = id]

(* db_queries.py 134-144 *)
DeductSelect(c, n) ==
    \E t \in tasks :
    /\ TaskId(t) = <<c, n>>
    /\ t.state = "created" /\ busy[proc[t.call]] = <<>>
    /\ \E db_ok \in BOOLEAN :
          IF db_ok /\ t.customer_id \in DOMAIN customer_credit
          THEN /\ tasks' = (tasks \ {t}) \cup
                     {[t EXCEPT !.state = "selected",
                                !.row = customer_credit[t.customer_id]]}
               /\ busy' = loop_during_deduct(busy, proc[t.call], TaskId(t))
               /\ overlapped' =
                     IF \E u \in tasks \ {t} :
                            u.state = "selected" /\ u.customer_id = t.customer_id
                     THEN overlapped \cup {t.customer_id}
                     ELSE overlapped
          ELSE /\ tasks' = tasks \ {t}
               /\ UNCHANGED <<busy, overlapped>>
    /\ UNCHANGED <<vector_store, RUNTIME, populated, customer_credit,
                   customer_realtime_information, credit0, deducted, callVars, pureVars>>

(* db_queries.py 145-164 *)
DeductUpdate(c, n) ==
    \E t \in tasks :
    /\ TaskId(t) = <<c, n>>
    /\ t.state = "selected" /\ busy[proc[t.call]] \in {TaskId(t), <<>>}
    /\ \E db_ok \in BOOLEAN :
          IF db_ok
          THEN /\ customer_credit' =
                     [customer_credit EXCEPT ![t.customer_id] = deducted_row(t.row, Cost(t))]
               /\ deducted' = [deducted EXCEPT ![t.customer_id] = @ + Cost(t)]
          ELSE UNCHANGED <<customer_credit, deducted>>
    /\ tasks' = tasks \ {t}
    /\ busy' = [busy EXCEPT ![proc[t.call]] = <<>>]
    /\ UNCHANGED <<vector_store, RUNTIME, populated, customer_realtime_information,
                   credit0, overlapped, callVars, pureVars>>

Next ==
    \/ \E c \in Calls :
          \/ Entrypoint(c)
          \/ Connect(c)
          \/ ResolveMetadata(c)
          \/ GetChatBot(c)
          \/ CreditCheck(c)
          \/ Decline(c)
          \/ PopulateRuntime(c)
          \/ AssemblePrompt(c)
          \/ FetchMcpUrls(c)
          \/ CreateSession(c)
          \/ StartSession(c)
          \/ Greeting(c)
          \/ RegisterMetrics(c)
          \/ UserInputTranscribed(c)
          \/ MetricsCollected(c)
    \/ \E c \in Calls, n \in 1..MaxMetrics :
          \/ DeductSelect(c, n)
          \/ DeductUpdate(c, n)

Spec == Init /\ [][Next]_vars

(***************************************************************************)
(* Properties of the call pipeline, checked under Spec.                    *)
(***************************************************************************)
Performed(c, step) == step \in Range(steps[c])

(* C1: a call whose customer's stored balance is below 20 when the credit  *)
(* gate is evaluated is reported has_credits = false, never has            *)
(* session.start invoked, does not raise, and ends with the room           *)
(* disconnected and agent_entrypoint returned.                             *)
C1_LowBalanceDeclined ==
    \A c \in Calls :
        credit_check[c].checked /\ credit_check[c].balance < 20 =>
            /\ ~credit_check[c].has_credits
            /\ ~session[c].started
            /\ ~Performed(c, "session_start")
            /\ outcome[c] \in {"running", "returned"}
            /\ pc[c] \in {"decline", "done"}
            /\ pc[c] = "done" =>
                  /\ room[c] = "disconnected"
                  /\ outcome[c] = "returned"
                  /\ entrypoint[c] = "returned"

(* A call with a balance of 19 or with no credit row has been declined. *)
C1_Witness ==
    \E c \in Calls :
        /\ credit_check[c].checked /\ credit_check[c].db_ok
        /\ credit_check[c].balance < 20
        /\ pc[c] = "done" /\ room[c] = "disconnected"

(* C2: when get_chat_bot_by_id yields no row for the resolved              *)
(* knowledge-base id, agent_entrypoint raises and main.entrypoint raises   *)
(* again; the credit gate, the population of _RUNTIME and session.start    *)
(* are not performed for that call.                                        *)
C2_MissingTenantFails ==
    \A c \in Calls :
        Performed(c, "tenant_missing") =>
            /\ existing_chatbot[c] = NoChatBot
            /\ pc[c] = "failed"
            /\ outcome[c] = "raised"
            /\ entrypoint[c] = "raised"
            /\ ~credit_check[c].checked
            /\ ~Performed(c, "credit_gate")
            /\ ~Performed(c, "runtime")
            /\ RUNTIME[proc[c]].room # c
            /\ ~Performed(c, "session_start")
            /\ ~session[c].created /\ ~session[c].started

(* A call whose knowledge-base id has no chat_bot row has failed. *)
C2_Witness ==
    \E c \in Calls :
        /\ Performed(c, "tenant_missing")
        /\ knowledgebase_id[c] \notin DOMAIN chat_bot
        /\ entrypoint[c] = "raised"

(* C3: when the datastore fails during the credit check, the check is not  *)
(* treated as sufficient credit, session.start is never invoked, and the   *)
(* call ends with the room disconnected.                                   *)
C3_FailedCheckAborts ==
    \A c \in Calls :
        credit_check[c].checked /\ ~credit_check[c].db_ok =>
            /\ ~credit_check[c].has_credits
            /\ ~session[c].started
            /\ ~Performed(c, "session_start")
            /\ ~Performed(c, "runtime")
            /\ pc[c] \in {"decline", "done"}
            /\ pc[c] = "done" => room[c] = "disconnected"

(* The check of a customer with enough credit failed and the call was      *)
(* aborted.                                                                *)
C3_Witness ==
    \E c \in Calls :
        /\ credit_check[c].checked /\ ~credit_check[c].db_ok
        /\ credit_check[c].balance >= 20
        /\ pc[c] = "done" /\ room[c] = "disconnected"

OutboundFlagged(c) ==
    "isoutBoundCall" \in DOMAIN job[c].metadata /\ job[c].metadata["isoutBoundCall"]

(* The trunk phone numbers a SIP participant carries. *)
CarriedTrunkNumbers(c) ==
    LET attrs == job[c].participant.attributes
    IN  IF job[c].participant.kind = "SIP"
        THEN {attrs[k] : k \in DOMAIN attrs \cap {"sip.trunkPhoneNumber", "trunkPhoneNumber"}}
        ELSE {}

(* C4: the metadata of a call is the payload itself when the payload is    *)
(* outbound-flagged, whatever the participant; otherwise, for a SIP        *)
(* participant carrying a trunk phone number, it is the result of the      *)
(* lookup by that number and holds no key of the payload; otherwise it is  *)
(* the payload.                                                            *)
C4_MetadataSelection ==
    \A c \in Calls :
        Performed(c, "metadata") =>
            IF OutboundFlagged(c) THEN metadata[c] = job[c].metadata
            ELSE IF CarriedTrunkNumbers(c) # {}
                 THEN /\ \E trunk \in CarriedTrunkNumbers(c) :
                            metadata[c] = fetch_metadata_by_trunk_phone_number(trunk)
                      /\ DOMAIN metadata[c] \cap DOMAIN job[c].metadata = {}
                 ELSE metadata[c] = job[c].metadata

(* An inbound call with a payload of its own came in over a trunk and had  *)
(* its metadata resolved.                                                  *)
C4_Witness ==
    \E c \in Calls :
        /\ Performed(c, "metadata")
        /\ ~OutboundFlagged(c)
        /\ "customerId" \in DOMAIN job[c].metadata
        /\ CarriedTrunkNumbers(c) # {}
        /\ metadata[c] # job[c].metadata

(* C5: an inbound call whose participant carries a trunk phone number runs *)
(* with the customer id, knowledge-base id and environment of the tenant   *)
(* configured for that number in the datastore.                            *)
C5_TrunkResolvesTenant ==
    \A c \in Calls :
        Performed(c, "metadata") /\ ~OutboundFlagged(c) =>
            \A trunk \in CarriedTrunkNumbers(c) \cap DOMAIN chat_bot_phone_number :
                LET tenant == chat_bot[chat_bot_phone_number[trunk]]
                IN  /\ customer_id[c] = tenant.customer_id
                    /\ knowledgebase_id[c] = tenant.chat_bot_id
                    /\ Get(metadata[c], "environment", "groq") = tenant.environment

(* The deductions of customer k that have read the row and not yet written *)
(* it.                                                                     *)
InFlight(k) == {t \in tasks : t.customer_id = k /\ t.state = "selected"}

SpentOf(row) == IF row.total_spent = Null THEN 0 ELSE row.total_spent[1]

(* C7: whenever no deduction of a customer is between its read and its     *)
(* write, the customer's balance is the initial balance minus the sum of   *)
(* the deducted costs, and total_spent is its initial value plus that sum. *)
C7_NoLostDeduction ==
    \A k \in DOMAIN customer_credit :
        InFlight(k) = {} =>
            /\ customer_credit[k].credits = credit0[k].credits - deducted[k]
            /\ SpentOf(customer_credit[k]) = SpentOf(credit0[k]) + deducted[k]

(* C8: a started session processes a further user utterance only while    *)
(* the customer's balance is at least 20.                                  *)
C8_UtteranceNeedsCredit ==
    [][\A c \in Calls :
          session'[c].utterances > session[c].utterances =>
              StoredBalance(customer_credit, customer_id[c]) >= 20]_vars

(* C9: every LLM usage-metrics event a session has emitted since           *)
(* session.start, the greeting's included, has started one deduction.      *)
C9_EveryEventDeducts ==
    \A c \in Calls : session[c].spawned = session[c].metrics

(* The call's agent_entrypoint has left the greeting block (unified_agent  *)
(* 332-347) after session.start completed.                                 *)
PastGreeting(c) ==
    session[c].started /\ pc[c] \in {"generating", "done", "failed"}

(* C18: once session.start has completed and agent_entrypoint has left the *)
(* greeting block, exactly one greeting was requested: the context-bearing *)
(* one when the customer has realtime information, the generic one         *)
(* otherwise; this includes the runs where the fetch failed.               *)
C18_AlwaysOneGreeting ==
    \A c \in Calls :
        PastGreeting(c) =>
            session[c].greetings =
                <<IF Len(get_realtime_information(customer_realtime_information,
                                                  customer_id[c])) > 0
                  THEN "context" ELSE "generic">>

(* The id a call resolves from its metadata: the key's value, 1 without it. *)
ResolvedId(c, key) == IF key \in DOMAIN metadata[c] THEN metadata[c][key] ELSE 1

(* C20: a missing customerId resolves to customer 1 and a missing          *)
(* knowledgebaseId to knowledge base 1, and the resolved ids are the ones  *)
(* of the tenant fetch, the credit gate, the runtime context the call      *)
(* populated and the deductions of the call.                               *)
C20_ResolvedIdsUsed ==
    \A c \in Calls :
        Performed(c, "metadata") =>
            /\ customer_id[c] = ResolvedId(c, "customerId")
            /\ knowledgebase_id[c] = ResolvedId(c, "knowledgebaseId")
            /\ Performed(c, "tenant") =>
                  existing_chatbot[c].chat_bot_id = ResolvedId(c, "knowledgebaseId")
            /\ credit_check[c].checked =>
                  credit_check[c].customer = ResolvedId(c, "customerId")
            /\ Performed(c, "runtime") /\ RUNTIME[proc[c]].room = c =>
                  RUNTIME[proc[c]].customer_id = ResolvedId(c, "customerId")
            /\ \A t \in tasks :
                  t.call = c => t.customer_id = ResolvedId(c, "customerId")

(* A call whose metadata has neither id reached a deduction: tenant 1 was  *)
(* fetched, customer 1 was checked, put in the runtime context and charged.*)
C20_Witness ==
    \E c \in Calls, t \in tasks :
        /\ t.call = c /\ t.customer_id = 1
        /\ DOMAIN metadata[c] \cap {"customerId", "knowledgebaseId"} = {}
        /\ existing_chatbot[c].chat_bot_id = 1
        /\ credit_check[c].customer = 1
        /\ RUNTIME[proc[c]].room = c /\ RUNTIME[proc[c]].customer_id = 1

(* The summary fetch of the call raised or returned no results. *)
SummaryUnavailable(c) ==
    Performed(c, "kb_summary_failed") \/ Performed(c, "kb_summary_empty")

(* C19: when the knowledge-base summary fetch raises or returns nothing,   *)
(* the call is not aborted by it: the prompt is assembled with an empty    *)
(* summary, the call goes on, and only the construction of a provider or   *)
(* the greeting's fetch ends it with an exception; a call that got past    *)
(* session.start has its session started.                                  *)
C19_SummaryFailureNotFatal ==
    \A c \in Calls :
        SummaryUnavailable(c) =>
            /\ Performed(c, "prompt")
            /\ kb_summary[c] = <<>>
            /\ pc[c] # "assemble_prompt"
            /\ outcome[c] = "raised" =>
                  steps[c][Len(steps[c])] \in {"tool_urls", "session_start"}
            /\ pc[c] \in {"greeting", "generating", "done"} => session[c].started

(* The summary fetch raised for one call and returned nothing for another, *)
(* and session.start completed for both.                                   *)
C19_Witness ==
    \E c, d \in Calls :
        /\ Performed(c, "kb_summary_failed") /\ session[c].started
        /\ Performed(d, "kb_summary_empty") /\ session[d].started
        /\ kb_summary[c] = <<>> /\ kb_summary[d] = <<>>

(* Two calls checked the same customer and no deduction of that customer  *)
(* was committed between the two checks.                                   *)
CheckedAlike(c, d) ==
    /\ credit_check[c].checked /\ credit_check[d].checked
    /\ credit_check[c].customer = credit_check[d].customer
    /\ credit_check[c].spent = credit_check[d].spent

GatePair(c) == <<credit_check[c].has_credits, credit_check[c].current_credits>>

(* C21, as stated: two checks of a customer with no deduction in between   *)
(* return the same has_credits/current_credits pair.                       *)
C21_SamePairAlways ==
    \A c, d \in Calls : CheckedAlike(c, d) => GatePair(c) = GatePair(d)

(* C21, amended: check_customer_credits leaves customer_credit as it was;  *)
(* two checks of a customer with no deduction in between return the same   *)
(* pair when the datastore answered both (or neither); a check the         *)
(* datastore did not answer returns has_credits false, current_credits 0.  *)
C21_ReadOnlyRepeatable ==
    /\ \A c \in Calls :
          credit_check[c].checked =>
              /\ credit_check[c].unchanged
              /\ ~credit_check[c].db_ok => GatePair(c) = <<FALSE, 0>>
    /\ \A c, d \in Calls :
          CheckedAlike(c, d) /\ credit_check[c].db_ok = credit_check[d].db_ok =>
              GatePair(c) = GatePair(d)

(* Two calls of one customer were both checked against a reachable         *)
(* datastore with no deduction in between, and both passed with the stored *)
(* balance.                                                                *)
C21_Witness ==
    \E c, d \in Calls :
        /\ c # d /\ CheckedAlike(c, d)
        /\ credit_check[c].db_ok /\ credit_check[d].db_ok
        /\ GatePair(c) = <<TRUE, 45>> /\ GatePair(d) = <<TRUE, 45>>
        /\ customer_credit = credit0

(* C26: while the deductions of a customer with a credit row do not        *)
(* overlap, the row's credits are the initial credits minus the committed  *)
(* costs and its total_spent the initial one (0 for NULL) plus them, so    *)
(* their sum is the initial sum; deductions that raised left the row as it *)
(* was.                                                                    *)
C26_SequentialDeductionsExact ==
    \A k \in DOMAIN customer_credit :
        k \notin overlapped =>
            /\ customer_credit[k].credits = credit0[k].credits - deducted[k]
            /\ SpentOf(customer_credit[k]) = SpentOf(credit0[k]) + deducted[k]
            /\ customer_credit[k].credits + SpentOf(customer_credit[k]) =
                   credit0[k].credits + SpentOf(credit0[k])
            /\ deducted[k] = 0 => customer_credit[k] = credit0[k]

(* Two deductions of one customer ran one after the other and both were    *)
(* committed.                                                              *)
C26_Witness ==
    \E k \in DOMAIN customer_credit :
        /\ k \notin overlapped /\ tasks = {}
        /\ \A c \in Calls : customer_id[c] = k /\ session[c].spawned = 1
        /\ deducted[k] = 50
        /\ customer_credit[k] = [credits |-> -5, total_spent |-> <<55>>]

(* Every call of the run is handled by one worker process. *)
OneEventLoop == \A c, d \in Calls : proc[c] = proc[d]

(* C28: in one event loop no deduction reads the row between another       *)
(* deduction's SELECT and its commit: while a deduction is between the two *)
(* the loop runs nothing else, at most one task is between them, and every *)
(* balance is the initial one minus the costs of the deductions committed. *)
C28_NoInterleavingInProcess ==
    OneEventLoop =>
        /\ overlapped = {}
        /\ Cardinality({t \in tasks : t.state = "selected"}) <= 1
        /\ \A t \in tasks : t.state = "selected" => busy[proc[t.call]] = TaskId(t)
        /\ \A k \in DOMAIN customer_credit :
              /\ customer_credit[k].credits = credit0[k].credits - deducted[k]
              /\ SpentOf(customer_credit[k]) = SpentOf(credit0[k]) + deducted[k]

(* In one event loop a deduction has read the row and not yet written it   *)
(* while another deduction of the same customer waits to run.              *)
C28_Witness ==
    /\ OneEventLoop
    /\ \E t, u \in tasks :
          /\ t.state = "selected" /\ u.state = "created"
          /\ t.customer_id = u.customer_id
          /\ busy[proc[u.call]] = TaskId(t)

(***************************************************************************)
(* C29: a datastore failure while the custom prompt is fetched aborts the  *)
(* call: the entry point raises with the Runtime Context of its process    *)
(* already populated by this call and no session created or started; a     *)
(* knowledge base without a custom-prompt row is no failure, the call goes *)
(* on with an empty fragment.                                              *)
(***************************************************************************)
PromptFetchFailed(c) == Performed(c, "custom_prompt_failed")

NoPromptRow(c) ==
    Performed(c, "prompt") /\ knowledgebase_id[c] \notin DOMAIN chat_bot_related_feature

C29_PromptFailureAborts ==
    \A c \in Calls :
        /\ PromptFetchFailed(c) =>
              /\ pc[c] = "failed" /\ outcome[c] = "raised"
              /\ Performed(c, "runtime") /\ c \in Range(populated[proc[c]])
              /\ ~Performed(c, "prompt") /\ ~Performed(c, "session_start")
              /\ ~session[c].created /\ ~session[c].started
        /\ NoPromptRow(c) =>
              /\ custom_prompt[c] = ""
              /\ ~PromptFetchFailed(c)
              /\ pc[c] # "assemble_prompt"

C29_Witness ==
    \E c, d \in Calls :
        /\ PromptFetchFailed(c) /\ outcome[c] = "raised"
        /\ populated[proc[c]][Len(populated[proc[c]])] = c
        /\ NoPromptRow(d) /\ session[d].started /\ custom_prompt[d] = ""

(***************************************************************************)
(* C30: a deduction that commits stores the balance it read minus the cost *)
(* whatever the sign of the result: no floor is applied, also when the     *)
(* cost exceeds the balance.                                               *)
(***************************************************************************)
Committed(t) ==
    /\ t.state = "selected" /\ t \notin tasks'
    /\ deducted'[t.customer_id] # deducted[t.customer_id]

C30_NoLowerBound ==
    [][\A t \in tasks :
          Committed(t) =>
              customer_credit'[t.customer_id].credits = t.row.credits - Cost(t)]_vars

(* The gate let a call in with a balance of at least the minimum, its own  *)
(* deduction was committed, its session is still running in a connected    *)
(* room, and the stored balance of its customer is negative.               *)
C30_Witness ==
    \E c \in Calls :
        /\ credit_check[c].has_credits /\ credit_check[c].balance >= MinimumCredit
        /\ Live(c) /\ session[c].metrics_handler /\ session[c].spawned > 0
        /\ deducted[customer_id[c]] > credit_check[c].balance
        /\ customer_credit[customer_id[c]].credits < 0

(***************************************************************************)
(* calculate_credits_used on its own: the argument is drawn from the small *)
(* token counts and from counts just above 2^LargeExp.                     *)
(***************************************************************************)
MaxTokens == 1500

LargeExp == 52

MaxLargeOffset == 40

TokenInputs ==
    {BigOf(t) : t \in 0..MaxTokens}
        \cup {BAdd(ShiftLeft(<<1>>, LargeExp), BigOf(j)) : j \in 0..MaxLargeOffset}

InitCalc ==
    /\ total_tokens \in TokenInputs
    /\ credits_used = NotComputed
    /\ ProvidersIdle
    /\ RagIdle
    /\ ToolsIdle
    /\ LeadsIdle
    /\ InitCalls([c \in Calls |-> NoJob], {}, [c \in Calls |-> 1],
                 [k \in Customers |-> [credits |-> 45, total_spent |-> <<5>>]])

Calculate ==
    /\ credits_used = NotComputed
    /\ credits_used' = calculate_credits_used(total_tokens)
    /\ UNCHANGED <<total_tokens, provVars, ragVars, toolVars, leadVars, callVars, sharedVars>>

SpecCalc == InitCalc /\ [][Calculate]_vars

(* C6: for every non-negative integer t, calculate_credits_used(t) is the  *)
(* exact integer ceiling of t/70, of t/70 * 1.2 above 500 tokens and of    *)
(* t/70 * 1.5 above 1000 tokens, and at least 20.                          *)
C6_Exact ==
    credits_used # NotComputed => credits_used = ExactCredits(total_tokens)

(* C27: calculate_credits_used returns 20 for every total_tokens from 0 to *)
(* 1000 and at least 22 above 1000, and its result for total_tokens + 1 is *)
(* not below its result for total_tokens.                                  *)
C27_FlatThenRising ==
    credits_used # NotComputed =>
        /\ ~BLess(BigOf(1000), total_tokens) => credits_used = BigOf(20)
        /\ BLess(BigOf(1000), total_tokens) => ~BLess(credits_used, BigOf(22))
        /\ ~BLess(calculate_credits_used(BAdd(total_tokens, BigOf(1))), credits_used)

(* The first token count above the flat range costs 22 credits. *)
C27_Witness ==
    total_tokens = BigOf(1001) /\ credits_used = BigOf(22)

(***************************************************************************)
(* The provider factories on their own: the metadata is drawn from every   *)
(* environment tag with and without the llmName and voice overrides, and   *)
(* any of the constructors may throw.                                      *)
(***************************************************************************)
EnvironmentTags == {"absent", "groq", "Groq", "gemini", "open ai", "azure", ""}

ProviderMetadata ==
    {[k \in (IF env = "absent" THEN {} ELSE {"environment"})
            \cup (IF llm = None THEN {} ELSE {"llmName"})
            \cup (IF voice = None THEN {} ELSE {"voice"}) |->
         CASE k = "environment" -> env
           [] k = "llmName"     -> llm
           [] k = "voice"       -> voice] :
        env \in EnvironmentTags, llm \in {None, "tenant-llm"},
        voice \in {None, "Ahmad-PlayAI", "tenant-voice"}}

InitProviders ==
    /\ provider_input \in [metadata : ProviderMetadata, throws : SUBSET {"llm", "tts", "stt"}]
    /\ instances = NoInstances
    /\ CalcIdle
    /\ RagIdle
    /\ ToolsIdle
    /\ LeadsIdle
    /\ InitCalls([c \in Calls |-> NoJob], {}, [c \in Calls |-> 1],
                 [k \in Customers |-> [credits |-> 45, total_spent |-> <<5>>]])

BuildLLM ==
    /\ instances.llm = NotBuilt
    /\ instances' = [instances EXCEPT !.llm =
          create_llm_instance(provider_input.metadata, "llm" \in provider_input.throws)]
    /\ UNCHANGED <<provider_input, calcVars, ragVars, toolVars, leadVars, callVars, sharedVars>>

BuildTTS ==
    /\ instances.tts = NotBuilt
    /\ instances' = [instances EXCEPT !.tts =
          create_tts_instance(provider_input.metadata, "tts" \in provider_input.throws)]
    /\ UNCHANGED <<provider_input, calcVars, ragVars, toolVars, leadVars, callVars, sharedVars>>

BuildSTT ==
    /\ instances.stt = NotBuilt
    /\ instances' = [instances EXCEPT !.stt =
          create_stt_instance(provider_input.metadata, "stt" \in provider_input.throws)]
    /\ UNCHANGED <<provider_input, calcVars, ragVars, toolVars, leadVars, callVars, sharedVars>>

NextProviders == BuildLLM \/ BuildTTS \/ BuildSTT

SpecProviders == InitProviders /\ [][NextProviders]_vars

RecognizedTags == {"groq", "gemini", "open ai"}

(* C10: for every environment tag each factory returns a provider          *)
(* instance, and with an absent or unrecognized tag the factories select   *)
(* the groq LLM, the groq TTS and the generic STT.                         *)
C10_AlwaysAProvider ==
    LET md   == provider_input.metadata
        like_groq == "environment" \notin DOMAIN md
                        \/ Lower(md["environment"]) \notin RecognizedTags
    IN  /\ instances.llm # NoProvider
        /\ instances.tts # NoProvider
        /\ instances.stt # NoProvider
        /\ like_groq /\ provider_input.throws = {} =>
              /\ instances.llm # NotBuilt => instances.llm.provider = "groq.LLM"
              /\ instances.tts # NotBuilt => instances.tts.provider = "groq.TTS"
              /\ instances.stt # NotBuilt => instances.stt.provider = "openai.STT"

(* C11: when the constructor of the selected LLM or TTS provider throws,   *)
(* the factory does not raise and returns the last resort, the openai LLM  *)
(* with model gpt-4o-mini and the openai TTS with voice alloy, whatever    *)
(* llmName and voice the metadata carries.                                 *)
C11_FixedLastResort ==
    LET md == provider_input.metadata
        selects_llm == "environment" \notin DOMAIN md
                          \/ Lower(md["environment"]) \in RecognizedTags
    IN  /\ instances.llm # Raised
        /\ instances.tts # Raised
        /\ "llm" \in provider_input.throws /\ selects_llm /\ instances.llm # NotBuilt =>
              instances.llm = [provider |-> "openai.LLM", model |-> "gpt-4o-mini"]
        /\ "tts" \in provider_input.throws /\ instances.tts # NotBuilt =>
              instances.tts = [provider |-> "openai.TTS", voice |-> "alloy"]

(***************************************************************************)
(* get_rag_information_from_vector_store on its own: the message, top_k    *)
(* and the vector store are drawn from small sets; stores are shorter and  *)
(* longer than the 20 neighbours a page query asks for.                    *)
(***************************************************************************)
Messages ==
    {<<"what", " ", "on", " ", "page", " ", "3", "?">>,
     <<"Page", "3">>,
     <<"pg", " ", "no", " ", "12">>,
     <<"PAGE", " ", "number", " ", "03">>,
     <<"page", " ", "num", "3", " ", "page", " ", "12">>,
     <<"page", " ", "No", " ", "on", " ", "pg", "12">>,
     <<"homepage", " ", "3">>,
     <<"what", " ", "on", " ", "page", "?">>,
     <<"page", " ", "no">>,
     <<"3", " ", "page">>,
     <<"what", "?">>}

PagePatterns ==
    {<<PageNum(3), PageNum(5), PageStr("3"), NoPage, PageStr("03")>>,
     <<PageNum(5), PageStr("12"), PageNum(12)>>,
     <<PageNum(5)>>,
     <<PageNum(5), PageNum(5), PageNum(5), PageNum(5), PageNum(5), PageNum(5),
       PageNum(3)>>}

StoreSizes == {0, 1, 3, 21, 22}

(* The store of n chunks whose pages repeat the pattern. *)
StoreOf(pattern, n) ==
    [i \in 1..n |-> [page_content |-> i, page |-> pattern[((i - 1) % Len(pattern)) + 1]]]

Stores ==
    {StoreOf(pattern, n) : pattern \in PagePatterns, n \in StoreSizes}
        \cup {VectorStoreFails}

TopKs == {1, 2, 25}

InitRag ==
    /\ rag_input \in [message : Messages, top_k : TopKs, store : Stores]
    /\ rag_output = NotRetrieved
    /\ CalcIdle
    /\ ProvidersIdle
    /\ ToolsIdle
    /\ LeadsIdle
    /\ InitCalls([c \in Calls |-> NoJob], {}, [c \in Calls |-> 1],
                 [k \in Customers |-> [credits |-> 45, total_spent |-> <<5>>]])

Retrieve ==
    /\ rag_output = NotRetrieved
    /\ rag_output' = get_rag_information_from_vector_store(
                         rag_input.message, rag_input.top_k, rag_input.store)
    /\ UNCHANGED <<rag_input, calcVars, provVars, toolVars, leadVars, callVars, sharedVars>>

SpecRag == InitRag /\ [][Retrieve]_vars

(* The messages that name one page, and the page they name. *)
NamedPage ==
    [m \in {<<"what", " ", "on", " ", "page", " ", "3", "?">>,
            <<"Page", "3">>,
            <<"pg", " ", "no", " ", "12">>,
            <<"PAGE", " ", "number", " ", "03">>} |->
        IF m = <<"pg", " ", "no", " ", "12">> THEN 12 ELSE 3]

(* The stored page metadata is the page n, as a number or as its text. *)
HasPage(page, n) == page = PageNum(n) \/ page = PageStr(PageText[n])

(* C17: for a message that names a page the result is tagged               *)
(* is_page_specific with that page; every returned chunk is one of the 20  *)
(* nearest neighbours and has that page in its metadata, as a number or as *)
(* text; and every chunk among the 20 nearest that has that page is        *)
(* returned, whatever top_k is.                                            *)
C17_PageFilter ==
    rag_output # NotRetrieved /\ rag_input.store # VectorStoreFails
        /\ rag_input.message \in DOMAIN NamedPage =>
        LET n == NamedPage[rag_input.message]
            store == rag_input.store
            nearest == {i \in DOMAIN store : i <= 20}
        IN  /\ rag_output.is_page_specific
            /\ rag_output.page = PageNum(n)
            /\ \A r \in Range(rag_output.results) :
                  /\ HasPage(r.page, n)
                  /\ \E i \in nearest : store[i] = r
            /\ \A i \in nearest :
                  HasPage(store[i].page, n) => store[i] \in Range(rag_output.results)
            /\ Len(rag_output.results) = Cardinality(Range(rag_output.results))

(* A page query with top_k = 1 returned two chunks of the page and left    *)
(* out other pages' chunks and a chunk of the page beyond the 20 nearest.  *)
C17_Witness ==
    /\ rag_output # NotRetrieved
    /\ rag_input.message \in DOMAIN NamedPage
    /\ rag_input.top_k = 1
    /\ Len(rag_output.results) > 1
    /\ Len(rag_input.store) > 20
    /\ \E i \in DOMAIN rag_input.store :
          i > 20 /\ HasPage(rag_input.store[i].page, NamedPage[rag_input.message])

(***************************************************************************)
(* The tools (utils/common.py 47-189) and the upsert they rely on          *)
(* (db_queries.py 225-259). A text is the sequence of its tokens, as a     *)
(* message is; a tool's result is the sequence of the parts of the string  *)
(* it returns.                                                             *)
(***************************************************************************)
NoText == <<"<None>">>

ToolRaised == [result |-> <<"<raised>">>, sent |-> <<>>, table |-> <<>>]

(* x or "" for a text x *)
TextOrEmpty(x) == IF x = NoText THEN <<>> ELSE x

RECURSIVE LStrip(_)
LStrip(text) ==
    IF text # <<>> /\ text[1] = " " THEN LStrip(Tail(text)) ELSE text

RECURSIVE RStrip(_)
RStrip(text) ==
    IF text # <<>> /\ text[Len(text)] = " "
    THEN RStrip(SubSeq(text, 1, Len(text) - 1))
    ELSE text

(* str.strip() *)
strip(text) == RStrip(LStrip(text))

(* common.py 47-67: the topics published to the frontend; a failure of the *)
(* publish is logged and not raised.                                       *)
send_text_message(to_room, topic, publish_ok) ==
    IF publish_ok THEN <<topic>> ELSE <<>>

(* common.py 79-86: the text of the latest user message that has one; a    *)
(* context without speech handle or chat items leaves the query empty.     *)
(* The query of a search_web that made no request to the search API. *)
NotSearched == <<"<no request>">>

(* A scan that stops at the first user message with text, oldest first. *)
latest_user_text_oldest(history) ==
    LET items == history.items
        users == {i \in DOMAIN items :
                     items[i].role = "user" /\ items[i].text \notin {NoText, <<>>}}
    IN  IF ~history.ok \/ users = {} THEN <<>>
        ELSE items[CHOOSE i \in users : \A j \in users : i <= j].text

latest_user_text(history) ==
    LET items == history.items
        users == {i \in DOMAIN items :
                     items[i].role = "user" /\ items[i].text \notin {NoText, <<>>}}
    IN  IF ~history.ok \/ users = {} THEN <<>>
        ELSE items[CHOOSE i \in users : \A j \in users : j <= i].text

(* common.py 77-86 and 126-135 *)
effective_query(query, history) ==
    LET stripped == strip(TextOrEmpty(query))
    IN  IF stripped # <<>> THEN stripped ELSE latest_user_text(history)

(* common.py 108-109: the first five distinct urls of the results *)
source_urls(urls) ==
    LET firsts == {i \in DOMAIN urls :
                      urls[i] \notin {None, ""} /\ \A j \in 1..(i - 1) : urls[j] # urls[i]}
        kept == {i \in firsts : Cardinality({j \in firsts : j < i}) < 5}
    IN  [i \in DOMAIN urls |-> IF i \in kept THEN <<urls[i]>> ELSE <<>>]

(* A search_web that lets a failure of the search API escape. *)
search_web_unguarded(query, history, runtime, publish_ok, tavily) ==
    LET q == effective_query(query, history)
        notice == IF runtime.room # NoneId
                  THEN send_text_message(runtime.room, "message", publish_ok)
                  ELSE <<>>
    IN  IF q = <<>>
        THEN [result |-> <<"Please specify what to search for.">>, sent |-> <<>>,
              table |-> <<>>, searched |-> NotSearched]
        ELSE IF ~tavily.ok THEN ToolRaised
        ELSE [result |-> <<"Here's what I found:">> \o
                  (IF tavily.answer \in {NoText, <<>>}
                   THEN <<"I couldn't find specific information about that.">>
                   ELSE tavily.answer),
              sent |-> notice, table |-> <<>>, searched |-> q]

(* common.py 73-120 *)
search_web(query, history, runtime, publish_ok, tavily) ==
    LET q == effective_query(query, history)
        notice == IF runtime.room # NoneId
                  THEN send_text_message(runtime.room, "message", publish_ok)
                  ELSE <<>>
        sources == IF runtime.room # NoneId
                        /\ \E i \in DOMAIN tavily.urls : source_urls(tavily.urls)[i] # <<>>
                   THEN send_text_message(runtime.room, "web-search-sources", publish_ok)
                   ELSE <<>>
    IN  IF q = <<>>
        THEN [result |-> <<"Please specify what to search for.">>, sent |-> <<>>,
              table |-> <<>>, searched |-> NotSearched]
        ELSE IF ~tavily.ok
        THEN [result |-> <<"I encountered an error while searching:", "error">>,
              sent |-> notice, table |-> <<>>, searched |-> q]
        ELSE [result |-> <<"Here's what I found:">> \o
                  (IF tavily.answer \in {NoText, <<>>}
                   THEN <<"I couldn't find specific information about that.">>
                   ELSE tavily.answer),
              sent |-> notice \o sources, table |-> <<>>, searched |-> q]

(* common.py 123-174 *)
search_knowledge_base(query, history, runtime, publish_ok, store) ==
    LET q == effective_query(query, history)
        notice == IF runtime.room # NoneId
                  THEN send_text_message(runtime.room, "message", publish_ok)
                  ELSE <<>>
        kb == get_rag_information_from_vector_store(q, 1, store)
        fallback == [result |-> <<"No specific info about">> \o q
                                   \o <<"in KB. Falling back to general knowledge.">>,
                     sent |-> notice, table |-> <<>>]
    IN  IF q = <<>>
        THEN [result |-> <<"Please specify what to search for in the knowledge base.">>,
              sent |-> <<>>, table |-> <<>>]
        ELSE IF None \in {runtime.namespace, runtime.index_name}
        THEN [result |-> <<"Knowledge base is not configured yet. I'll answer with general knowledge instead.">>,
              sent |-> notice, table |-> <<>>]
        ELSE IF kb = RagRaised
        THEN [result |-> <<"Error accessing KB. Falling back to general knowledge on">> \o q,
              sent |-> notice, table |-> <<>>]
        ELSE IF kb.results = <<>> THEN fallback
        ELSE LET doc == kb.results[1]
                 page_number == doc.page
                 shown == IF runtime.room # NoneId /\ page_number.type \in {"num", "str"}
                                /\ page_number # PageNum(0) /\ page_number # PageStr("")
                          THEN send_text_message(runtime.room, "presentation-page-number",
                                                 publish_ok)
                          ELSE <<>>
             IN  IF doc.page_content # 0
                 THEN [result |-> <<"Based on your query:", ToString(doc.page_content)>>,
                       sent |-> notice \o shown, table |-> <<>>]
                 ELSE [fallback EXCEPT !.sent = notice \o shown]

(* A row of customer_realtime_information. *)
InfoRow(customer, key, value) ==
    [customer_id |-> customer, info_key |-> key, info_value |-> value]

(* db_queries.py 225-259. The connection is opened with the connector's    *)
(* default client flags, so cursor.rowcount after the UPDATE counts the    *)
(* rows whose value changed, not the rows the WHERE clause matched. A      *)
(* "keyed" schema has a unique key on (customer_id, info_key), a "plain"   *)
(* one has none. Every failure rolls back and is reported as False.        *)
upsert_customer_realtime_information(table, customer, key, value, db, schema) ==
    LET matched == {i \in DOMAIN table :
                       /\ customer # NoneId
                       /\ table[i].customer_id = customer
                       /\ table[i].info_key = key}
        rowcount == Cardinality({i \in matched : table[i].info_value # value})
        updated == [i \in DOMAIN table |->
                       IF i \in matched THEN [table[i] EXCEPT !.info_value = value]
                       ELSE table[i]]
    IN  IF db = "connect_fails" THEN [ok |-> FALSE, table |-> table]
        ELSE IF rowcount = 0 /\ schema = "keyed" /\ matched # {}
        THEN [ok |-> FALSE, table |-> table]
        ELSE IF db = "commit_fails" THEN [ok |-> FALSE, table |-> table]
        ELSE [ok |-> TRUE,
              table |-> IF rowcount = 0
                        THEN Append(updated, InfoRow(customer, key, value))
                        ELSE updated]

(* common.py 177-189 *)
store_long_term_memory_information(key, value, runtime, publish_ok, table, db, schema) ==
    LET customer == runtime.customer_id
        notice == IF runtime.room # NoneId
                  THEN send_text_message(runtime.room, "message", publish_ok)
                  ELSE <<>>
        upserted == upsert_customer_realtime_information(table, customer, key, value,
                                                         db, schema)
    IN  [result |-> <<"Stored successfully in memory">>, sent |-> notice,
         table |-> upserted.table]

(***************************************************************************)
(* The tools and the upsert on their own, over small sets of arguments,    *)
(* Runtime Contexts and collaborator outcomes.                             *)
(***************************************************************************)
Queries == {NoText, <<>>, <<" ">>, <<" ", "weather", " ">>, <<"page", " ", "3">>}

Histories ==
    {[ok |-> FALSE, items |-> <<>>],
     [ok |-> TRUE, items |-> <<>>],
     [ok |-> TRUE, items |-> <<[role |-> "user", text |-> <<"news">>],
                               [role |-> "assistant", text |-> <<"hello">>],
                               [role |-> "user", text |-> <<>>]>>],
     [ok |-> TRUE, items |-> <<[role |-> "user", text |-> <<"old">>],
                               [role |-> "assistant", text |-> <<"hello">>],
                               [role |-> "user", text |-> <<"news">>],
                               [role |-> "assistant", text |-> <<"later">>]>>],
     [ok |-> TRUE, items |-> <<[role |-> "user", text |-> <<" ">>]>>]}

Runtimes ==
    {EmptyRuntime,
     [room |-> 1, namespace |-> "ns-1", index_name |-> "idx-1", customer_id |-> 1],
     [room |-> 2, namespace |-> None, index_name |-> None, customer_id |-> 2]}

TavilyResponses ==
    {[ok |-> FALSE, answer |-> NoText, urls |-> <<>>],
     [ok |-> TRUE, answer |-> NoText, urls |-> <<>>],
     [ok |-> TRUE, answer |-> <<"sunny">>, urls |-> <<"u1", "u1", None, "u2">>]}

KnowledgeBases ==
    {VectorStoreFails, <<>>,
     <<[page_content |-> 1, page |-> PageNum(3)], [page_content |-> 2, page |-> NoPage]>>,
     <<[page_content |-> 0, page |-> PageStr("3")]>>}

InfoKeys == {"name", "pet"}

InfoValues == {"Ada", "Eve"}

RealtimeTables ==
    {<<>>,
     <<InfoRow(1, "name", "Ada")>>,
     <<InfoRow(1, "name", "Ada"), InfoRow(2, "name", "Bob"), InfoRow(1, "pet", "cat")>>}

DbOutcomes == {"ok", "connect_fails", "commit_fails"}

Schemas == {"plain", "keyed"}

ToolInputs ==
    [tool : {"search_web"}, query : Queries, history : Histories, runtime : Runtimes,
     publish_ok : BOOLEAN, tavily : TavilyResponses, store : {<<>>},
     key : {None}, value : {None}, table : {<<>>}, db : {"ok"}, schema : {"plain"}]
    \cup
    [tool : {"search_knowledge_base"}, query : Queries, history : Histories,
     runtime : Runtimes, publish_ok : BOOLEAN,
     tavily : {[ok |-> FALSE, answer |-> NoText, urls |-> <<>>]}, store : KnowledgeBases,
     key : {None}, value : {None}, table : {<<>>}, db : {"ok"}, schema : {"plain"}]
    \cup
    [tool : {"store_long_term_memory_information", "upsert_customer_realtime_information"},
     query : {NoText}, history : {[ok |-> FALSE, items |-> <<>>]},
     runtime : Runtimes, publish_ok : BOOLEAN,
     tavily : {[ok |-> FALSE, answer |-> NoText, urls |-> <<>>]}, store : {<<>>},
     key : InfoKeys, value : InfoValues, table : RealtimeTables, db : DbOutcomes,
     schema : Schemas]

InitTools ==
    /\ tool_input \in ToolInputs
    /\ tool_output = NotInvoked
    /\ CalcIdle
    /\ ProvidersIdle
    /\ RagIdle
    /\ LeadsIdle
    /\ InitCalls([c \in Calls |-> NoJob], {}, [c \in Calls |-> 1],
                 [k \in Customers |-> [credits |-> 45, total_spent |-> <<5>>]])

Invoked(tool) == tool_input.tool = tool /\ tool_output # NotInvoked

Invokable(tool) == tool_input.tool = tool /\ tool_output = NotInvoked

InvokeSearchWeb ==
    /\ Invokable("search_web")
    /\ tool_output' = search_web(tool_input.query, tool_input.history,
                                 tool_input.runtime, tool_input.publish_ok,
                                 tool_input.tavily)
    /\ UNCHANGED <<tool_input, calcVars, provVars, ragVars, leadVars, callVars,
                   sharedVars>>

InvokeSearchKnowledgeBase ==
    /\ Invokable("search_knowledge_base")
    /\ tool_output' = search_knowledge_base(tool_input.query, tool_input.history,
                                            tool_input.runtime, tool_input.publish_ok,
                                            tool_input.store)
    /\ UNCHANGED <<tool_input, calcVars, provVars, ragVars, leadVars, callVars,
                   sharedVars>>

InvokeStoreMemory ==
    /\ Invokable("store_long_term_memory_information")
    /\ tool_output' = store_long_term_memory_information(
                          tool_input.key, tool_input.value, tool_input.runtime,
                          tool_input.publish_ok, tool_input.table, tool_input.db,
                          tool_input.schema)
    /\ UNCHANGED <<tool_input, calcVars, provVars, ragVars, leadVars, callVars,
                   sharedVars>>

InvokeUpsert ==
    /\ Invokable("upsert_customer_realtime_information")
    /\ LET upserted == upsert_customer_realtime_information(
                           tool_input.table, tool_input.runtime.customer_id,
                           tool_input.key, tool_input.value, tool_input.db,
                           tool_input.schema)
       IN  tool_output' = [result |-> <<IF upserted.ok THEN "True" ELSE "False">>,
                           sent |-> <<>>, table |-> upserted.table]
    /\ UNCHANGED <<tool_input, calcVars, provVars, ragVars, leadVars, callVars,
                   sharedVars>>

NextTools ==
    InvokeSearchWeb \/ InvokeSearchKnowledgeBase \/ InvokeStoreMemory \/ InvokeUpsert

SpecTools == InitTools /\ [][NextTools]_vars

(* What the upsert of the invocation's arguments reports. *)
UpsertOfInput ==
    upsert_customer_realtime_information(
        tool_input.table, tool_input.runtime.customer_id, tool_input.key,
        tool_input.value, tool_input.db, tool_input.schema)

(* C12: store_long_term_memory_information never raises, returns the       *)
(* success string only when the upsert under the Runtime Context's         *)
(* customer id was persisted, and returns a failure string whenever the    *)
(* upsert reports False.                                                   *)
C12_StoreReportsFailure ==
    Invoked("store_long_term_memory_information") =>
        /\ tool_output # ToolRaised
        /\ tool_output.result = <<"Stored successfully in memory">> =>
              /\ UpsertOfInput.ok
              /\ \E i \in DOMAIN tool_output.table :
                    tool_output.table[i] =
                        InfoRow(tool_input.runtime.customer_id, tool_input.key,
                                tool_input.value)
        /\ ~UpsertOfInput.ok => tool_output.result[1] = "Failed to store info:"

ToolNames ==
    {"search_web", "search_knowledge_base", "store_long_term_memory_information"}

(* C13: each of the three tools returns a string, for every argument,      *)
(* Runtime Context and failure of a collaborator; none raises.             *)
C13_ToolsReturnStrings ==
    tool_input.tool \in ToolNames /\ tool_output # NotInvoked =>
        /\ tool_output # ToolRaised
        /\ tool_output.result # <<"<raised>">>
        /\ Len(tool_output.result) >= 1

(* search_web was invoked without a Runtime Context and the search API     *)
(* failed.                                                                 *)
C13_Witness ==
    /\ Invoked("search_web")
    /\ ~tool_input.tavily.ok
    /\ tool_input.runtime = EmptyRuntime
    /\ tool_output.result[1] = "I encountered an error while searching:"

(* The user messages of the invocation's conversation that have text. *)
UserTexts ==
    IF tool_input.history.ok
    THEN {i \in DOMAIN tool_input.history.items :
             /\ tool_input.history.items[i].role = "user"
             /\ tool_input.history.items[i].text # <<>>}
    ELSE {}

(* The query argument is missing, empty or white space. *)
EmptyQuery == \A i \in DOMAIN TextOrEmpty(tool_input.query) : tool_input.query[i] = " "

(* C22: search_web with an empty query searches for the text of the most   *)
(* recent user message that has text; without one it returns the          *)
(* clarification prompt, makes no request to the search API and publishes  *)
(* nothing.                                                                *)
C22_EmptyQueryFallback ==
    Invoked("search_web") /\ EmptyQuery =>
        IF UserTexts # {}
        THEN \E i \in UserTexts :
                /\ \A j \in UserTexts : j <= i
                /\ tool_output.searched = tool_input.history.items[i].text
        ELSE /\ tool_output.result = <<"Please specify what to search for.">>
             /\ tool_output.searched = NotSearched
             /\ tool_output.sent = <<>>

(* search_web got a white-space query in a conversation whose latest user  *)
(* message with text is not its first, and searched for that text.         *)
C22_Witness ==
    /\ Invoked("search_web")
    /\ tool_input.query = <<" ">>
    /\ Cardinality(UserTexts) > 1
    /\ tool_output.searched = <<"news">>
    /\ tool_input.runtime.room # NoneId

(* C14: with a working datastore, an upsert for an existing (customer,     *)
(* key) leaves the number of rows unchanged and the pair's value equal to  *)
(* the given one, also when the given value is the stored one; for a new   *)
(* pair it adds exactly the row (customer, key, value).                    *)
C14_UpsertInPlace ==
    Invoked("upsert_customer_realtime_information") /\ tool_input.db = "ok" =>
        LET before == tool_input.table
            after == tool_output.table
            customer == tool_input.runtime.customer_id
            existing == {i \in DOMAIN before :
                            /\ before[i].customer_id = customer
                            /\ before[i].info_key = tool_input.key}
        IN  IF existing # {}
            THEN /\ Len(after) = Len(before)
                 /\ \A i \in existing : after[i].info_value = tool_input.value
                 /\ \A i \in DOMAIN before \ existing : after[i] = before[i]
            ELSE after = Append(before, InfoRow(customer, tool_input.key,
                                                tool_input.value))

(* No two rows of the table have the same customer and key. *)
OneRowPerKey(table) ==
    \A i, j \in DOMAIN table :
        table[i].customer_id = table[j].customer_id /\ table[i].info_key = table[j].info_key
            => i = j

(* C24: an upsert on a table with at most one row per (customer, key)      *)
(* leaves a table with at most one row per (customer, key).                *)
C24_KeysStayUnique ==
    /\ tool_input.tool \in {"upsert_customer_realtime_information",
                            "store_long_term_memory_information"}
    /\ tool_output # NotInvoked
    /\ OneRowPerKey(tool_input.table)
    => OneRowPerKey(tool_output.table)

(***************************************************************************)
(* create_user_lead_form (db_queries.py 366-415) and                       *)
(* is_lead_already_exists (418-449). A transaction works on a copy of the  *)
(* tables, which commit makes the tables and rollback discards. The        *)
(* statements are numbered: 1 opening the connection, 2 the header insert, *)
(* 2 + k the insert of the k-th form item, and after them the commit.      *)
(* `open` counts the connections the call opened and had not closed when   *)
(* it ended: close() is called on lines 386-387 and 400-401 only, the      *)
(* handler (403-415) rolls back and raises.                                *)
(***************************************************************************)
commit(committed, tx) == tx

(* A rollback that keeps what the transaction wrote. *)
rollback_keeps(committed, tx) == tx

rollback(committed, tx) == committed

(* cursor.lastrowid after the header insert: the new AUTO_INCREMENT id, 0  *)
(* for a table without one.                                                *)
lastrowid(table, auto_increment) ==
    IF auto_increment THEN Len(table) + 1 ELSE 0

(* db_queries.py 391-396: the inserts from item k on; stops at the         *)
(* statement that fails.                                                   *)
RECURSIVE insert_lead_values(_, _, _, _, _)
insert_lead_values(tx, user_lead_id, form, k, fail_at) ==
    IF k > Len(form) THEN [ok |-> TRUE, tx |-> tx]
    ELSE IF fail_at = 2 + k THEN [ok |-> FALSE, tx |-> tx]
    ELSE insert_lead_values(
             [tx EXCEPT !.user_lead_value =
                 Append(@, [user_lead_id |-> user_lead_id, lable |-> form[k].lable,
                            value |-> form[k].value])],
             user_lead_id, form, k + 1, fail_at)

(* db_queries.py 366-415 *)
create_user_lead_form(db, chat_bot_id, user_lead_dto, fail_at, auto_increment) ==
    LET user_lead_id == lastrowid(db.user_lead, auto_increment)
        header == [user_lead_id |-> user_lead_id,
                   user_session_id |-> user_lead_dto.user_session_id,
                   chat_bot_id |-> chat_bot_id,
                   chat_bot_lead_form_id |-> user_lead_dto.chat_bot_lead_form_id,
                   conversation_id |-> user_lead_dto.conversation_id]
        with_header == [db EXCEPT !.user_lead = Append(@, header)]
        values == insert_lead_values(with_header, user_lead_id, user_lead_dto.form, 1,
                                     fail_at)
    IN  IF fail_at = 1 THEN [result |-> "raised", db |-> db, open |-> 0]
        ELSE IF fail_at = 2
        THEN [result |-> "raised", db |-> rollback(db, db), open |-> 1]
        ELSE IF user_lead_id = 0
        THEN [result |-> "False", db |-> rollback(db, with_header), open |-> 0]
        ELSE IF ~values.ok
        THEN [result |-> "raised", db |-> rollback(db, values.tx), open |-> 1]
        ELSE IF fail_at = 3 + Len(user_lead_dto.form)
        THEN [result |-> "raised", db |-> rollback(db, values.tx), open |-> 1]
        ELSE [result |-> "True", db |-> commit(db, values.tx), open |-> 0]

(* db_queries.py 418-449 *)
is_lead_already_exists(db, chat_bot_id, lead_form_id, user_session_id, conversation_id, db_ok) ==
    IF ~db_ok THEN "raised"
    ELSE IF \E i \in DOMAIN db.user_lead :
                /\ db.user_lead[i].chat_bot_id = chat_bot_id
                /\ db.user_lead[i].chat_bot_lead_form_id = lead_form_id
                /\ db.user_lead[i].conversation_id = conversation_id
                /\ db.user_lead[i].user_session_id = user_session_id
         THEN "True"
         ELSE "False"

(***************************************************************************)
(* The lead functions on their own.                                        *)
(***************************************************************************)
LeadForms ==
    {<<>>,
     <<[lable |-> "name", value |-> "Ada"]>>,
     <<[lable |-> "name", value |-> "Ada"], [lable |-> "mail", value |-> "a@b"]>>}

LeadDtos ==
    [user_session_id : {7}, chat_bot_lead_form_id : {5}, conversation_id : {1, 2},
     form : LeadForms]

(* 0: no statement fails *)
FailingStatements(form) == 0..(3 + Len(form))

LeadHeader(id, conversation) ==
    [user_lead_id |-> id, user_session_id |-> 7, chat_bot_id |-> 1,
     chat_bot_lead_form_id |-> 5, conversation_id |-> conversation]

LeadDbs ==
    {NoLeads,
     [user_lead |-> <<LeadHeader(1, 2)>>,
      user_lead_value |-> <<[user_lead_id |-> 1, lable |-> "name", value |-> "Bob"]>>]}

InitLeads ==
    /\ \E dto \in LeadDtos, db \in LeadDbs, auto \in BOOLEAN :
          \E fail_at \in FailingStatements(dto.form) :
              /\ lead_input = [chat_bot_id |-> 1, user_lead_dto |-> dto, db |-> db,
                               fail_at |-> fail_at, auto_increment |-> auto]
              /\ lead_db = db
    /\ lead_output = NotCreated
    /\ CalcIdle
    /\ ProvidersIdle
    /\ RagIdle
    /\ ToolsIdle
    /\ InitCalls([c \in Calls |-> NoJob], {}, [c \in Calls |-> 1],
                 [k \in Customers |-> [credits |-> 45, total_spent |-> <<5>>]])

CreateLead ==
    /\ lead_output.result = "<not called>"
    /\ LET created == create_user_lead_form(lead_db, lead_input.chat_bot_id,
                                            lead_input.user_lead_dto, lead_input.fail_at,
                                            lead_input.auto_increment)
       IN  /\ lead_db' = created.db
           /\ lead_output' = [lead_output EXCEPT !.result = created.result,
                                                 !.open = created.open]
    /\ UNCHANGED <<lead_input, calcVars, provVars, ragVars, toolVars, callVars,
                   sharedVars>>

CheckLead ==
    /\ lead_output.exists = "<not called>"
    /\ \E db_ok \in BOOLEAN :
          lead_output' =
              [lead_output EXCEPT !.exists =
                  is_lead_already_exists(
                      lead_db, lead_input.chat_bot_id,
                      lead_input.user_lead_dto.chat_bot_lead_form_id,
                      lead_input.user_lead_dto.user_session_id,
                      lead_input.user_lead_dto.conversation_id, db_ok)]
    /\ UNCHANGED <<lead_input, lead_db, calcVars, provVars, ragVars, toolVars, callVars,
                   sharedVars>>

NextLeads == CreateLead \/ CheckLead

SpecLeads == InitLeads /\ [][NextLeads]_vars

(* The header insert is executed and the insert of a form item fails. *)
ValueInsertFails ==
    /\ lead_input.auto_increment
    /\ lead_input.fail_at \in 3..(2 + Len(lead_input.user_lead_dto.form))

(* The lead of the arguments was in user_lead before the call. *)
ExistedBefore ==
    \E i \in DOMAIN lead_input.db.user_lead :
        LET row == lead_input.db.user_lead[i]
        IN  /\ row.chat_bot_id = lead_input.chat_bot_id
            /\ row.chat_bot_lead_form_id = lead_input.user_lead_dto.chat_bot_lead_form_id
            /\ row.user_session_id = lead_input.user_lead_dto.user_session_id
            /\ row.conversation_id = lead_input.user_lead_dto.conversation_id

(* C15: create_user_lead_form is all-or-nothing. When a form item's insert *)
(* fails after the header insert, the function raises, the tables are as   *)
(* before the call and a following is_lead_already_exists for a lead that  *)
(* did not exist before does not answer True; whenever it does not return  *)
(* True the tables are as before; when it returns True the header and one  *)
(* value row per form item are in the tables.                              *)
C15_AllOrNothing ==
    lead_output.result # "<not called>" =>
        LET form == lead_input.user_lead_dto.form
            id == Len(lead_input.db.user_lead) + 1
        IN  /\ ValueInsertFails =>
                  /\ lead_output.result = "raised"
                  /\ lead_db = lead_input.db
                  /\ ~ExistedBefore => lead_output.exists # "True"
            /\ lead_output.result # "True" => lead_db = lead_input.db
            /\ lead_output.result = "True" =>
                  /\ lead_db.user_lead =
                        Append(lead_input.db.user_lead,
                               [user_lead_id |-> id,
                                user_session_id |-> lead_input.user_lead_dto.user_session_id,
                                chat_bot_id |-> lead_input.chat_bot_id,
                                chat_bot_lead_form_id |->
                                    lead_input.user_lead_dto.chat_bot_lead_form_id,
                                conversation_id |->
                                    lead_input.user_lead_dto.conversation_id])
                  /\ lead_db.user_lead_value =
                        lead_input.db.user_lead_value \o
                            [k \in DOMAIN form |->
                                [user_lead_id |-> id, lable |-> form[k].lable,
                                 value |-> form[k].value]]

(* The insert of the second of two form items failed, the function raised  *)
(* and the following existence check answered False.                       *)
C15_Witness ==
    /\ ValueInsertFails
    /\ lead_input.fail_at = 4
    /\ ~ExistedBefore
    /\ lead_output.result = "raised"
    /\ lead_output.exists = "False"

(* C23: when create_user_lead_form has returned or raised, no connection   *)
(* it opened is still open.                                                *)
C23_ConnectionsClosed ==
    lead_output.result # "<not called>" => lead_output.open = 0

(***************************************************************************)
(* Calls sharing a worker process: the pipeline of two calls up to the     *)
(* greeting, and a store_long_term_memory_information invocation by one of *)
(* them. The tool reads _RUNTIME before its first await (common.py         *)
(* 180-182) and writes the datastore after it (184-185).                   *)
(***************************************************************************)
MemoryTool == "store_long_term_memory_information"

LastPopulated(p) == populated[p][Len(populated[p])]

(* The index of a tenant: unreachable, empty, or holding chunks. *)
TenantStores == {VectorStoreFails, <<>>, TenantIndexes["ns-1"]}

InitShared ==
    /\ CalcIdle /\ ProvidersIdle /\ RagIdle /\ ToolsIdle /\ LeadsIdle
    /\ \E js \in [Calls -> DuoJobs], p2 \in Procs,
          indexes \in [DOMAIN TenantIndexes -> TenantStores] :
          InitCallsWith(js, {}, [c \in Calls |-> IF c = 1 THEN 1 ELSE p2],
                        [k \in Customers |-> [credits |-> 45, total_spent |-> <<5>>]],
                        indexes)

(* common.py 180-183: up to the await of send_text_message *)
StartStoreMemory(c) ==
    /\ Live(c) /\ Free(c)
    /\ tool_input = [tool |-> None]
    /\ \E key \in {"pet"}, value \in {"Eve"} :
          tool_input' = [tool |-> MemoryTool, call |-> c, key |-> key, value |-> value,
                         runtime |-> RUNTIME[proc[c]],
                         populated_last |-> LastPopulated(proc[c])]
    /\ UNCHANGED <<tool_output, calcVars, provVars, ragVars, leadVars, callVars,
                   sharedVars>>

(* common.py 184-189: the upsert and the return *)
FinishStoreMemory(c) ==
    /\ tool_input.tool = MemoryTool /\ tool_input.call = c
    /\ tool_output = NotInvoked /\ Free(c)
    /\ \E db \in {"ok", "connect_fails"} :
          LET returned == store_long_term_memory_information(
                              tool_input.key, tool_input.value, tool_input.runtime,
                              TRUE, customer_realtime_information, db, "plain")
          IN  /\ tool_output' = returned
              /\ customer_realtime_information' = returned.table
    /\ UNCHANGED <<tool_input, calcVars, provVars, ragVars, leadVars, callVars,
                   vector_store, RUNTIME, populated, busy, customer_credit, credit0, overlapped,
                   deducted, tasks>>

NextShared ==
    \E c \in Calls :
        \/ Entrypoint(c)
        \/ Connect(c)
        \/ ResolveMetadata(c)
        \/ GetChatBot(c)
        \/ CreditCheck(c)
        \/ Decline(c)
        \/ PopulateRuntime(c)
        \/ AssemblePrompt(c)
        \/ FetchMcpUrls(c)
        \/ CreateSession(c)
        \/ StartSession(c)
        \/ Greeting(c)
        \/ RegisterMetrics(c)
        \/ StartStoreMemory(c)
        \/ FinishStoreMemory(c)

SpecShared == InitShared /\ [][NextShared]_vars

(* The context agent_entrypoint of the call puts in _RUNTIME. *)
ContextOf(c) ==
    [room |-> c, namespace |-> existing_chatbot[c].namespace,
     index_name |-> existing_chatbot[c].index_name, customer_id |-> customer_id[c]]

(* The rows the memory tool wrote. *)
MemoryRows ==
    {i \in DOMAIN customer_realtime_information :
        customer_realtime_information[i].info_key = "pet"}

(* C16: the runtime context of a process holds the room, namespace, index  *)
(* and customer id of the call that populated it last; a tool invocation   *)
(* of any call of the process reads those values; and the memory write of  *)
(* the invocation is stored under the customer id of the call that had     *)
(* populated last when the tool read the context.                          *)
C16_LastWriterWins ==
    /\ \A p \in Procs :
          populated[p] # <<>> => RUNTIME[p] = ContextOf(LastPopulated(p))
    /\ tool_input.tool = MemoryTool =>
          /\ tool_input.runtime = ContextOf(tool_input.populated_last)
          /\ proc[tool_input.populated_last] = proc[tool_input.call]
          /\ tool_output # NotInvoked => tool_output.sent = <<"message">>
          /\ \A i \in MemoryRows :
                customer_realtime_information[i].customer_id =
                    customer_id[tool_input.populated_last]

(* Two calls of different customers are live in one process; the call that *)
(* populated first issued a memory write, and the row is stored under the  *)
(* customer id of the call that populated last.                            *)
C16_Witness ==
    \E c, d \in Calls :
        /\ proc[c] = proc[d] /\ customer_id[c] # customer_id[d]
        /\ Live(c) /\ Live(d)
        /\ populated[proc[c]] = <<c, d>>
        /\ tool_input.tool = MemoryTool /\ tool_input.call = c
        /\ tool_input.populated_last = d
        /\ MemoryRows # {}
        /\ \A i \in MemoryRows :
              customer_realtime_information[i].customer_id = customer_id[d]

(* The steps of agent_entrypoint up to session.start, in the order of the  *)
(* source (unified_agent.py 66-329).                                       *)
StepsToSessionStart ==
    <<"connect", "metadata", "tenant", "credit_gate", "runtime", "prompt", "tool_urls",
      "providers", "session_start">>

(* The steps a call performed, without the outcome of its summary fetch. *)
OrderedSteps(c) ==
    SelectSeq(steps[c],
              LAMBDA x : x \notin {"kb_summary_failed", "kb_summary_empty", "kb_summary"})

(* C25: when session.start completes for a call, the call has performed    *)
(* room connect, metadata resolution, tenant fetch, credit gate, runtime   *)
(* population, prompt assembly, tool-server URL resolution and provider    *)
(* selection in this order, each once, the greeting follows session start, *)
(* and the runtime context of its process holds the values of this call.   *)
C25_StrictOrder ==
    [][\A c \in Calls :
          /\ ~session[c].started /\ session'[c].started =>
                /\ OrderedSteps(c)' = StepsToSessionStart
                /\ RUNTIME'[proc[c]] = ContextOf(c)
          /\ session'[c].greetings # <<>> =>
                OrderedSteps(c)' = Append(StepsToSessionStart, "greeting")]_vars

=============================================================================
